---------------------------- MODULE Spec2Model ----------------------------
(***************************************************************************)
(* Time tracking: the duration and value calculators of the two storage    *)
(* backends (MemStorage, DatabaseStorage), the time-entry store they       *)
(* maintain behind the /api/time-entries routes, the routes of clients,    *)
(* consultants and services, and the aggregations (getReportData,          *)
(* getDashboardStats, the analytics page) computed over the stored         *)
(* entries.                                                                *)
(*                                                                         *)
(* Numbers.  A clock time is the string the code receives ("08:30"), kept  *)
(* as a sequence of one-character strings and parsed as the code parses    *)
(* it.  Hours are carried in units of 1/HoursUnit hour, rates in units of  *)
(* 1/RateUnit and values in units of 1/(HoursUnit*RateUnit), so that       *)
(* minutes/60, a two-decimal column and their products are all whole       *)
(* numbers of units.  The sums the aggregations compute are JavaScript     *)
(* numbers: they are modelled as IEEE-754 binary64 values (section         *)
(* "binary64").                                                            *)
(***************************************************************************)
EXTENDS Integers, Sequences, FiniteSets, TLC

VARIABLES
    calcIn,             \* the calculator's arguments: clock times, break, rate
    calcOut,            \* what the calculator returned for calcIn
    backend,            \* which IStorage the server runs on: "mem" or "db"
    clients,            \* id -> client
    consultants,        \* id -> consultant
    services,           \* id -> service
    sectors,            \* id -> sector
    serviceTypes,       \* id -> service type
    projects,           \* id -> project (the database only)
    timeEntries,        \* id -> time entry
    currentTimeEntryId, \* the next time-entry id (currentTimeEntryId / the serial)
    currentClientId,    \* the next client id
    currentConsultantId, \* the next consultant id
    currentServiceId,   \* the next service id
    request,            \* the request handled last
    response,           \* its response
    inflight,           \* per connection: the request being handled and how far it got
    page,               \* the time-entry page in the browser: form, fetches, timers
    router              \* the client Router: user, isLoading, localStorage

calcVars == <<calcIn, calcOut>>
counterVars == <<currentClientId, currentConsultantId, currentServiceId>>
masterVars == <<clients, consultants, services, sectors, serviceTypes, projects, counterVars>>
storeVars == <<backend, masterVars, timeEntries, currentTimeEntryId>>
httpVars == <<request, response, inflight>>
browserVars == <<page, router>>
vars == <<calcVars, storeVars, httpVars, browserVars>>

(***************************************************************************)
(* Units                                                                   *)
(***************************************************************************)
MinutesPerHour == 60

\* decimal(_, scale 2): a stored hour count, rate or value has two decimals
DecimalScale == 100

\* lcm(60, 100): the smallest unit in which n/60 hours and n/100 hours are whole
HoursUnit == 5 * MinutesPerHour

RateUnit == DecimalScale

ValueUnit == HoursUnit * RateUnit

(***************************************************************************)
(* Strings                                                                 *)
(***************************************************************************)
Null == <<>>

DigitChars == <<"0", "1", "2", "3", "4", "5", "6", "7", "8", "9">>

IsDigit(c) == \E i \in 1..10 : DigitChars[i] = c

DigitVal(c) == (CHOOSE i \in 1..10 : DigitChars[i] = c) - 1

\* String.prototype.split(sep): the pieces between the separators
RECURSIVE SplitFrom(_, _, _, _)
SplitFrom(s, sep, i, piece) ==
    IF i > Len(s) THEN <<piece>>
    ELSE IF s[i] = sep THEN <<piece>> \o SplitFrom(s, sep, i + 1, <<>>)
    ELSE SplitFrom(s, sep, i + 1, Append(piece, s[i]))

Split(s, sep) == SplitFrom(s, sep, 1, <<>>)

\* the Number NaN among the whole numbers of the model: a value no quantity
\* of the model comes near
NaN == -1073741824

\* an arithmetic result: NaN as soon as an operand is NaN
Num(operands, result) == IF NaN \in operands THEN NaN ELSE result

\* Number(str) on a string of decimal digits ("" is 0)
RECURSIVE DigitsValue(_, _)
DigitsValue(s, acc) ==
    IF s = <<>> THEN acc
    ELSE DigitsValue(Tail(s), acc * 10 + DigitVal(Head(s)))

IsDigits(s) == \A i \in 1..Len(s) : IsDigit(s[i])

\* Number(str): digits give their value, "" gives 0, letters give NaN
JsNumber(s) == IF IsDigits(s) THEN DigitsValue(s, 0) ELSE NaN

\* const [a, b] = parts.map(Number): a missing piece is undefined, and
\* undefined in arithmetic is NaN
Piece(parts, i) == IF i <= Len(parts) THEN JsNumber(parts[i]) ELSE NaN

\* hours * 60 + minutes of a split time
PieceMinutes(parts) ==
    Num({Piece(parts, 1), Piece(parts, 2)}, Piece(parts, 1) * 60 + Piece(parts, 2))

\* the number of digits of s from position i on
RECURSIVE DigitsLen(_, _)
DigitsLen(s, i) ==
    IF i <= Len(s) /\ IsDigit(s[i]) THEN 1 + DigitsLen(s, i + 1) ELSE 0

\* parseFloat, in 1/RateUnit: an optional sign, then the longest prefix of
\* digits with at most one point (two fraction digits at most here); what
\* follows is ignored, and NaN when no digit is there
ParseFloat(s) ==
    LET neg == s # <<>> /\ Head(s) = "-"
        text == IF neg THEN Tail(s) ELSE s
        wholeLen == DigitsLen(text, 1)
        fracLen == IF wholeLen < Len(text) /\ text[wholeLen + 1] = "."
                   THEN DigitsLen(text, wholeLen + 2) ELSE 0
        whole == DigitsValue(SubSeq(text, 1, wholeLen), 0)
        frac  == SubSeq(text, wholeLen + 2, wholeLen + 1 + fracLen)
        cents == CASE Len(frac) = 0 -> 0
                   [] Len(frac) = 1 -> 10 * DigitVal(frac[1])
                   [] Len(frac) = 2 -> 10 * DigitVal(frac[1]) + DigitVal(frac[2])
        n == whole * RateUnit + cents
    IN  IF wholeLen + fracLen = 0 THEN NaN
        ELSE IF neg THEN -n ELSE n

\* what the form's time input sends for hour h, minute m: "HH:MM"
TimeStr(h, m) ==
    <<DigitChars[(h \div 10) + 1], DigitChars[(h % 10) + 1], ":",
      DigitChars[(m \div 10) + 1], DigitChars[(m % 10) + 1]>>

\* a non-negative integer as a decimal string
RECURSIVE IntStr(_)
IntStr(n) ==
    IF n < 10 THEN <<DigitChars[n + 1]>>
    ELSE Append(IntStr(n \div 10), DigitChars[(n % 10) + 1])

\* Number.prototype.toString of a number of hundredths that is not negative:
\* "142", "142.5", "0.75"
NumberStr(cents) ==
    IntStr(cents \div 100) \o
    (IF cents % 100 = 0 THEN <<>>
     ELSE IF cents % 10 = 0 THEN <<".", DigitChars[((cents % 100) \div 10) + 1]>>
     ELSE <<".", DigitChars[((cents % 100) \div 10) + 1], DigitChars[(cents % 10) + 1]>>)

\* a decimal(10,2) column as the driver returns it: "142.00"
DecimalStr(cents) ==
    IntStr(cents \div 100) \o <<".">> \o
    <<DigitChars[((cents % 100) \div 10) + 1], DigitChars[(cents % 10) + 1]>>

Truthy(s) == s # Null

\* Math.max: NaN if an argument is NaN
Max(a, b) == Num({a, b}, IF a >= b THEN a ELSE b)

(***************************************************************************)
(* binary64                                                                *)
(*                                                                         *)
(* A JavaScript number is [neg, mag]: a sign and a magnitude held as five  *)
(* limbs of LimbBits bits, most significant first, two limbs of integer    *)
(* part and three of fraction: mag = SUM mag[i] * 2^(LimbBits * (2 - i)).  *)
(* Every binary64 value between 2^-28 and 2^54 in magnitude, and every sum *)
(* or difference of two of them, is such a magnitude exactly; an operation *)
(* rounds its exact result to 53 significant bits, ties to even.           *)
(***************************************************************************)
LimbBits == 3 * 9        \* three nine-bit steps of FracLimb
MantissaBits == 53
Limb == 2 ^ LimbBits
NLimbs == 2 + 3           \* integer limbs + fraction limbs

ZeroMag == <<0, 0, 0, 0, 0>>
DZero == [neg |-> FALSE, mag |-> ZeroMag]

\* the binary64 NaN
DNaN == [neg |-> FALSE, mag |-> <<>>]

AddMag(a, b) ==
    LET s5 == a[5] + b[5]
        s4 == a[4] + b[4] + (s5 \div Limb)
        s3 == a[3] + b[3] + (s4 \div Limb)
        s2 == a[2] + b[2] + (s3 \div Limb)
        s1 == a[1] + b[1] + (s2 \div Limb)
    IN  <<s1, s2 % Limb, s3 % Limb, s4 % Limb, s5 % Limb>>

\* a - b for a >= b
SubMag(a, b) ==
    LET d5 == a[5] - b[5]
        d4 == a[4] - b[4] - (IF d5 < 0 THEN 1 ELSE 0)
        d3 == a[3] - b[3] - (IF d4 < 0 THEN 1 ELSE 0)
        d2 == a[2] - b[2] - (IF d3 < 0 THEN 1 ELSE 0)
        d1 == a[1] - b[1] - (IF d2 < 0 THEN 1 ELSE 0)
    IN  <<d1, d2 % Limb, d3 % Limb, d4 % Limb, d5 % Limb>>

RECURSIVE CmpFrom(_, _, _)
CmpFrom(a, b, i) ==
    IF i > NLimbs THEN 0
    ELSE IF a[i] < b[i] THEN -1
    ELSE IF a[i] > b[i] THEN 1
    ELSE CmpFrom(a, b, i + 1)

CmpMag(a, b) == CmpFrom(a, b, 1)

BitLen(x) == CHOOSE n \in 0..31 : (n = 0 \/ 2 ^ (n - 1) <= x) /\ x < 2 ^ n

\* the position of the leading bit, counted from the lowest bit of the last limb
TopBit(mag) ==
    LET i == CHOOSE k \in 1..NLimbs : mag[k] # 0 /\ \A j \in 1..(k - 1) : mag[j] = 0
    IN  LimbBits * (NLimbs - i) + BitLen(mag[i]) - 1

Pow2Mag(k) ==
    [i \in 1..NLimbs |->
        IF NLimbs - i = k \div LimbBits THEN 2 ^ (k % LimbBits) ELSE 0]

BitAt(mag, k) == (mag[NLimbs - (k \div LimbBits)] \div (2 ^ (k % LimbBits))) % 2

\* mag with the bits below position cut cleared
TruncLow(mag, cut) ==
    [i \in 1..NLimbs |->
        LET lb == LimbBits * (NLimbs - i)
        IN  IF lb >= cut THEN mag[i]
            ELSE IF lb + LimbBits <= cut THEN 0
            ELSE (mag[i] \div (2 ^ (cut - lb))) * (2 ^ (cut - lb))]

\* round to nearest, ties to even; sticky: the exact value has bits below the last limb
Round53(mag, sticky) ==
    IF mag = ZeroMag THEN mag
    ELSE
      LET cut == TopBit(mag) - (MantissaBits - 1)
      IN  IF cut <= 0 THEN mag
          ELSE
            LET kept == TruncLow(mag, cut)
                c == CmpMag(SubMag(mag, kept), Pow2Mag(cut - 1))
                up == c > 0 \/ (c = 0 /\ (sticky \/ BitAt(mag, cut) = 1))
            IN  IF up THEN AddMag(kept, Pow2Mag(cut)) ELSE kept

\* one limb of the binary expansion of r/d (r < d < 2^15), nine bits at a time
FracLimb(r, d) ==
    LET q1 == (r * 512) \div d
        r1 == (r * 512) % d
        q2 == (r1 * 512) \div d
        r2 == (r1 * 512) % d
        q3 == (r2 * 512) \div d
        r3 == (r2 * 512) % d
    IN  [limb |-> (q1 * 512 + q2) * 512 + q3, rem |-> r3]

\* the binary64 nearest to n/d (n >= 0): what parseFloat returns for the decimal n/d
FromRatio(n, d) ==
    LET q == n \div d
        f3 == FracLimb(n % d, d)
        f4 == FracLimb(f3.rem, d)
        f5 == FracLimb(f4.rem, d)
    IN  Round53(<<q \div Limb, q % Limb, f3.limb, f4.limb, f5.limb>>, f5.rem # 0)

DFromRatio(n, d) ==
    IF n = NaN THEN DNaN
    ELSE IF n >= 0 THEN [neg |-> FALSE, mag |-> FromRatio(n, d)]
    ELSE [neg |-> TRUE, mag |-> FromRatio(-n, d)]

\* x + y in binary64
DAdd(x, y) ==
    IF DNaN \in {x, y} THEN DNaN
    ELSE IF x.neg = y.neg
    THEN [neg |-> x.neg, mag |-> Round53(AddMag(x.mag, y.mag), FALSE)]
    ELSE
      LET c == CmpMag(x.mag, y.mag)
      IN  IF c = 0 THEN DZero
          ELSE IF c > 0
          THEN [neg |-> x.neg, mag |-> Round53(SubMag(x.mag, y.mag), FALSE)]
          ELSE [neg |-> y.neg, mag |-> Round53(SubMag(y.mag, x.mag), FALSE)]

\* x < y
DLess(x, y) ==
    IF DNaN \in {x, y} THEN FALSE
    ELSE IF x.neg # y.neg THEN x.neg
    ELSE IF x.neg THEN CmpMag(x.mag, y.mag) > 0
    ELSE CmpMag(x.mag, y.mag) < 0

\* the fraction limbs <<f3, f4, f5>> times ten: the digit carried out, and the rest
FracTimes10(f) ==
    LET p5 == f[3] * 10
        p4 == f[2] * 10 + (p5 \div Limb)
        p3 == f[1] * 10 + (p4 \div Limb)
    IN  [digit |-> p3 \div Limb, frac |-> <<p3 % Limb, p4 % Limb, p5 % Limb>>]

\* Number.prototype.toFixed(2), as a signed count of hundredths: the n for
\* which n/100 is nearest to x, the larger n of two equally near
ToFixed2(x) ==
    IF x = DNaN THEN NaN ELSE
    LET whole == x.mag[1] * Limb + x.mag[2]
        t1 == FracTimes10(<<x.mag[3], x.mag[4], x.mag[5]>>)
        t2 == FracTimes10(t1.frac)
        up == IF t2.frac[1] >= Limb \div 2 THEN 1 ELSE 0
        n == whole * 100 + t1.digit * 10 + t2.digit + up
    IN  IF x.neg THEN -n ELSE n

\* mag * k for a whole number k
RECURSIVE MulMag(_, _)
MulMag(mag, k) ==
    IF k = 0 THEN ZeroMag
    ELSE LET half == MulMag(mag, k \div 2)
             twice == AddMag(half, half)
         IN  IF k % 2 = 1 THEN AddMag(twice, mag) ELSE twice

\* x * k in binary64, k a whole number
DTimes(x, k) ==
    IF x = DNaN THEN DNaN
    ELSE IF k >= 0 THEN [neg |-> x.neg, mag |-> Round53(MulMag(x.mag, k), FALSE)]
    ELSE [neg |-> ~x.neg, mag |-> Round53(MulMag(x.mag, -k), FALSE)]

\* xs[1] + xs[2] + ... from left to right, as Array.prototype.reduce adds them
RECURSIVE DSumFrom(_, _, _)
DSumFrom(xs, i, acc) ==
    IF i > Len(xs) THEN acc ELSE DSumFrom(xs, i + 1, DAdd(acc, xs[i]))

DSum(xs) == DSumFrom(xs, 1, DZero)

(***************************************************************************)
(* Duration and value calculators                                          *)
(***************************************************************************)
\* DatabaseStorage.timeToMinutes
timeToMinutes(time) == PieceMinutes(Split(time, ":"))

\* calculateHours with an integer division: Math.floor(workMinutes / 60)
calculateHoursWholeHours(startTime, endTime, breakStartTime, breakEndTime) ==
    LET start == timeToMinutes(startTime)
        end == timeToMinutes(endTime)
        workMinutes ==
            IF Truthy(breakStartTime) /\ Truthy(breakEndTime)
            THEN LET breakStart == timeToMinutes(breakStartTime)
                     breakEnd == timeToMinutes(breakEndTime)
                 IN  Num({start, end, breakStart, breakEnd},
                         (end - start) - (breakEnd - breakStart))
            ELSE Num({start, end}, end - start)
    IN  Num({workMinutes}, (workMinutes \div MinutesPerHour) * HoursUnit)

\* DatabaseStorage.calculateHours: workMinutes / 60, in 1/HoursUnit hour
calculateHours(startTime, endTime, breakStartTime, breakEndTime) ==
    LET start == timeToMinutes(startTime)
        end == timeToMinutes(endTime)
        workMinutes ==
            IF Truthy(breakStartTime) /\ Truthy(breakEndTime)
            THEN LET breakStart == timeToMinutes(breakStartTime)
                     breakEnd == timeToMinutes(breakEndTime)
                 IN  Num({start, end, breakStart, breakEnd},
                         (end - start) - (breakEnd - breakStart))
            ELSE Num({start, end}, end - start)
    IN  Num({workMinutes}, (workMinutes * HoursUnit) \div MinutesPerHour)

\* totalHours * parseInt(service.hourlyRate): the rate's decimals dropped
hoursTimesWholeRate(totalHours, hourlyRate) ==
    Num({totalHours}, totalHours * (DigitsValue(Split(hourlyRate, ".")[1], 0) * RateUnit))

\* totalHours * parseFloat(service.hourlyRate), in 1/ValueUnit
hoursTimesRate(totalHours, hourlyRate) ==
    Num({totalHours, ParseFloat(hourlyRate)}, totalHours * ParseFloat(hourlyRate))

\* calculateHoursAndValue that never subtracts the break
calculateHoursAndValueNoBreak(startTime, endTime, hourlyRate, breakStartTime, breakEndTime) ==
    LET startParts == Split(startTime, ":")
        endParts == Split(endTime, ":")
        startMinutes == PieceMinutes(startParts)
        endMinutes == PieceMinutes(endParts)
        totalMinutes == Num({startMinutes, endMinutes}, endMinutes - startMinutes)
        hours == Max(0, Num({totalMinutes}, (totalMinutes * HoursUnit) \div MinutesPerHour))
    IN  [hours |-> hours, value |-> hoursTimesRate(hours, hourlyRate)]

\* MemStorage.calculateHoursAndValue
calculateHoursAndValue(startTime, endTime, hourlyRate, breakStartTime, breakEndTime) ==
    LET startParts == Split(startTime, ":")
        endParts == Split(endTime, ":")
        startMinutes == PieceMinutes(startParts)
        endMinutes == PieceMinutes(endParts)
        breakDuration ==
            IF Truthy(breakStartTime) /\ Truthy(breakEndTime)
            THEN LET breakStartMinutes == PieceMinutes(Split(breakStartTime, ":"))
                     breakEndMinutes == PieceMinutes(Split(breakEndTime, ":"))
                 IN  Num({breakStartMinutes, breakEndMinutes},
                         breakEndMinutes - breakStartMinutes)
            ELSE 0
        totalMinutes == Num({startMinutes, endMinutes, breakDuration},
                            (endMinutes - startMinutes) - breakDuration)
        hours == Max(0, Num({totalMinutes}, (totalMinutes * HoursUnit) \div MinutesPerHour))
    IN  [hours |-> hours, value |-> hoursTimesRate(hours, hourlyRate)]

(***************************************************************************)
(* Records                                                                 *)
(***************************************************************************)
NoId == 0

\* {...a, ...b}
Spread(a, b) ==
    [k \in DOMAIN a \cup DOMAIN b |-> IF k \in DOMAIN b THEN b[k] ELSE a[k]]

Has(r, k) == k \in DOMAIN r

\* r.k || dflt for a string field
StrOr(r, k, dflt) == IF Has(r, k) /\ Truthy(r[k]) THEN r[k] ELSE dflt

\* r.k || dflt for a numeric field
IdOr(r, k, dflt) == IF Has(r, k) /\ r[k] # 0 THEN r[k] ELSE dflt

Without(r, ks) == [k \in DOMAIN r \ ks |-> r[k]]

\* "YYYY-MM-DD"
DateStr(y, m, d) ==
    IntStr(y) \o <<"-">> \o <<DigitChars[(m \div 10) + 1], DigitChars[(m % 10) + 1]>>
      \o <<"-">> \o <<DigitChars[(d \div 10) + 1], DigitChars[(d % 10) + 1]>>

\* the UTF-16 code unit of a date's character, relative to "-"
CharCode(c) == IF c = "-" THEN 0 ELSE 3 + DigitVal(c)

\* a <= b on strings, as JavaScript's and PostgreSQL's text comparison order them
RECURSIVE StrLeqFrom(_, _, _)
StrLeqFrom(a, b, i) ==
    IF i > Len(a) THEN TRUE
    ELSE IF i > Len(b) THEN FALSE
    ELSE IF CharCode(a[i]) < CharCode(b[i]) THEN TRUE
    ELSE IF CharCode(a[i]) > CharCode(b[i]) THEN FALSE
    ELSE StrLeqFrom(a, b, i + 1)

StrLeq(a, b) == StrLeqFrom(a, b, 1)

(***************************************************************************)
(* The store after construction                                            *)
(*                                                                         *)
(* Of a record's fields those are kept that a handler or an aggregation    *)
(* modelled here reads; the free-text fields of a time entry (description, *)
(* activityCompleted, deliveryForecast, actualDelivery) are left out.      *)
(* totalHours and totalValue are kept as whole numbers of units: for the   *)
(* database, the decimal(_, 2) the column holds; for MemStorage, the       *)
(* numbers whose toString() it keeps (see ParseTotalValue).                *)
(***************************************************************************)
T(h, m) == TimeStr(h, m)

\* MemStorage.addSampleData
SampleClients ==
    (1 :> [code |-> "CLI001", name |-> "SkyStoneBrasil"]) @@
    (2 :> [code |-> "CLI002", name |-> "TechCorp"]) @@
    (3 :> [code |-> "CLI003", name |-> "InnovaSoft"]) @@
    (4 :> [code |-> "CLI004", name |-> "DataFlow Solutions"]) @@
    (5 :> [code |-> "CLI005", name |-> "CloudTech"])

SampleConsultants ==
    (1 :> [code |-> "CON001", name |-> "Joao Silva"]) @@
    (2 :> [code |-> "CON002", name |-> "Maria Santos"]) @@
    (3 :> [code |-> "LEON", name |-> "Leon T. Firme"])

SampleServices ==
    (1 :> [code |-> "DEV001", clientId |-> 1, hourlyRate |-> <<"1", "4", "2">>]) @@
    (2 :> [code |-> "CONS001", clientId |-> 1, hourlyRate |-> <<"1", "4", "2">>]) @@
    (3 :> [code |-> "SUP001", clientId |-> 2, hourlyRate |-> <<"1", "2", "0">>])

SampleSectors ==
    (1 :> [code |-> "TI", description |-> "Tecnologia da Informacao", clientId |-> 1]) @@
    (2 :> [code |-> "FIN", description |-> "Financeiro", clientId |-> 1]) @@
    (3 :> [code |-> "ADM", description |-> "Administrativo", clientId |-> NoId])

SampleServiceTypes ==
    (1 :> [code |-> "CONS", description |-> "Consultoria"]) @@
    (2 :> [code |-> "IMPL", description |-> "Implementacao"]) @@
    (3 :> [code |-> "SUPT", description |-> "Suporte Tecnico"]) @@
    (4 :> [code |-> "TREI", description |-> "Treinamento"])

SampleTimeEntries ==
    (1 :> [id |-> 1, date |-> DateStr(2024, 12, 1), consultantId |-> 3, clientId |-> 1,
           serviceId |-> 1, sectorId |-> 1, serviceTypeId |-> 1, projectId |-> NoId,
           startTime |-> T(8, 0), endTime |-> T(17, 0),
           breakStartTime |-> T(12, 0), breakEndTime |-> T(13, 0),
           serviceLocation |-> Null,
           totalHours |-> 8 * HoursUnit, totalValue |-> 1136 * ValueUnit]) @@
    (2 :> [id |-> 2, date |-> DateStr(2024, 12, 2), consultantId |-> 3, clientId |-> 1,
           serviceId |-> 2, sectorId |-> 2, serviceTypeId |-> 2, projectId |-> NoId,
           startTime |-> T(9, 0), endTime |-> T(18, 0),
           breakStartTime |-> T(12, 30), breakEndTime |-> T(13, 30),
           serviceLocation |-> Null,
           totalHours |-> 8 * HoursUnit, totalValue |-> 1136 * ValueUnit]) @@
    (3 :> [id |-> 3, date |-> DateStr(2024, 12, 3), consultantId |-> 3, clientId |-> 1,
           serviceId |-> 1, sectorId |-> NoId, serviceTypeId |-> 3, projectId |-> NoId,
           startTime |-> T(8, 30), endTime |-> T(16, 30),
           breakStartTime |-> Null, breakEndTime |-> Null,
           serviceLocation |-> Null,
           totalHours |-> 8 * HoursUnit, totalValue |-> 1136 * ValueUnit])

NoRows == [i \in {} |-> i]

\* the hourly_rate column is decimal(10,2): "142" is kept and returned as "142.00"
AsDecimal2(rate) == DecimalStr(ParseFloat(rate))

\* the database the server is started against: the same master data, entered
\* through the registration pages, and no time entries yet
DbServices ==
    [i \in DOMAIN SampleServices |->
        [SampleServices[i] EXCEPT !.hourlyRate = AsDecimal2(@)]]

\* the projects table, which MemStorage's project methods query as well
DbProjects ==
    (1 :> [clientId |-> 1, name |-> "ERP"]) @@
    (2 :> [clientId |-> 2, name |-> "Portal"])

\* setEditingEntry(null)
NoEntry == [id |-> NoId, clientId |-> NoId, serviceId |-> NoId]

\* the time-entry page as it is mounted: an empty form, nothing fetched
NoPage ==
    [editingEntry |-> NoEntry, clientId |-> NoId, serviceId |-> NoId,
     clientServices |-> {}, selectedService |-> NoId, fetches |-> {}, timers |-> {}]

\* JavaScript's null, and an object, as values of one kind
JsNull == [type |-> "null", value |-> NoRows]
JsObject(o) == [type |-> "object", value |-> o]

\* localStorage.getItem("auth_user"): <<>> for null, else the text in a sequence
NoItem == <<>>

\* the Router before the application is loaded: useState(null), useState(true),
\* and no auth_user in localStorage
NoRouter == [loaded |-> FALSE, user |-> JsNull, isLoading |-> TRUE, authUser |-> NoItem,
             last |-> "none"]

\* no browser takes part
BrowserIdle ==
    /\ page = NoPage
    /\ router = NoRouter

MaxConcurrent == 2
Connections == 1 .. MaxConcurrent

\* a connection with no request under way
Idle == [pc |-> "idle", id |-> NoId, body |-> NoRows, updateData |-> NoRows,
         existing |-> NoRows, values |-> NoRows]

NoRequest == [writes |-> 0, route |-> "none", id |-> NoId, body |-> NoRows]
NoData == [kind |-> "none", rows |-> <<>>]
NoResponse == [status |-> 0, data |-> NoData]

\* the store with these rows of consultants
StoreInitWith(b, consultantRows) ==
    /\ backend = b
    /\ clients = SampleClients
    /\ consultants = consultantRows
    /\ sectors = SampleSectors
    /\ serviceTypes = SampleServiceTypes
    /\ services = IF b = "mem" THEN SampleServices ELSE DbServices
    /\ projects = DbProjects
    /\ timeEntries = IF b = "mem" THEN SampleTimeEntries ELSE NoRows
    /\ currentTimeEntryId = IF b = "mem" THEN 4 ELSE 1
    /\ currentClientId = Cardinality(DOMAIN SampleClients) + 1
    /\ currentConsultantId = Cardinality(DOMAIN SampleConsultants) + 1
    /\ currentServiceId = Cardinality(DOMAIN SampleServices) + 1
    /\ request = NoRequest
    /\ response = NoResponse
    /\ inflight = [c \in Connections |-> Idle]

StoreInit(b) == StoreInitWith(b, SampleConsultants)

(***************************************************************************)
(* Time entries: storage                                                   *)
(***************************************************************************)
\* a storage call's outcome: "ok", "undefined" (nothing returned) or "throw"
Outcome(res, entries, nextId) == [result |-> res, entries |-> entries, nextId |-> nextId]

\* MemStorage.createTimeEntry
MemCreateTimeEntry(entries, nextId, svcs, ins) ==
    IF ins.serviceId \notin DOMAIN svcs THEN Outcome("throw", entries, nextId)
    ELSE
      LET calc == calculateHoursAndValue(ins.startTime, ins.endTime,
                      svcs[ins.serviceId].hourlyRate,
                      StrOr(ins, "breakStartTime", Null), StrOr(ins, "breakEndTime", Null))
          timeEntry ==
              [id |-> nextId, date |-> ins.date, consultantId |-> ins.consultantId,
               clientId |-> ins.clientId, serviceId |-> ins.serviceId,
               sectorId |-> IdOr(ins, "sectorId", NoId),
               serviceTypeId |-> IdOr(ins, "serviceTypeId", NoId),
               projectId |-> IdOr(ins, "projectId", NoId),
               startTime |-> ins.startTime, endTime |-> ins.endTime,
               breakStartTime |-> StrOr(ins, "breakStartTime", Null),
               breakEndTime |-> StrOr(ins, "breakEndTime", Null),
               serviceLocation |-> StrOr(ins, "serviceLocation", Null),
               totalHours |-> calc.hours, totalValue |-> calc.value]
      IN  Outcome("ok", entries @@ (nextId :> timeEntry), nextId + 1)

\* MemStorage.updateTimeEntry
MemUpdateTimeEntry(entries, nextId, svcs, id, updateData) ==
    IF id \notin DOMAIN entries THEN Outcome("undefined", entries, nextId)
    ELSE
      LET timeEntry == entries[id]
          updatedEntry == Spread(timeEntry, updateData)
          recalc == \/ StrOr(updateData, "startTime", Null) # Null
                    \/ StrOr(updateData, "endTime", Null) # Null
                    \/ IdOr(updateData, "serviceId", NoId) # NoId
          serviceId == IdOr(updateData, "serviceId", timeEntry.serviceId)
      IN  IF ~recalc
          THEN Outcome("ok", [entries EXCEPT ![id] = updatedEntry], nextId)
          ELSE IF serviceId \notin DOMAIN svcs
          THEN Outcome("undefined", entries, nextId)
          ELSE
            LET calc == calculateHoursAndValue(
                            StrOr(updateData, "startTime", timeEntry.startTime),
                            StrOr(updateData, "endTime", timeEntry.endTime),
                            svcs[serviceId].hourlyRate, Null, Null)
            IN  Outcome("ok",
                    [entries EXCEPT ![id] =
                        Spread(updatedEntry,
                               [totalHours |-> calc.hours, totalValue |-> calc.value])],
                    nextId)

\* MemStorage.deleteTimeEntry / DatabaseStorage.deleteTimeEntry
DeleteTimeEntryRows(entries, id) == [i \in DOMAIN entries \ {id} |-> entries[i]]

\* a numeric(_, 2) column: n units rounded to a multiple of per, half away from zero
RoundToMultiple(n, per) ==
    IF n >= 0 THEN ((2 * n + per) \div (2 * per)) * per
    ELSE -(((2 * (-n) + per) \div (2 * per)) * per)

\* total_hours decimal(5,2); numeric takes 'NaN' whatever its scale
StoredHours(h) == Num({h}, RoundToMultiple(h, HoursUnit \div DecimalScale))

\* total_value decimal(10,2)
StoredValue(v) == Num({v}, RoundToMultiple(v, ValueUnit \div DecimalScale))

\* the foreign keys of time_entries
ForeignKeysHold(row, m) ==
    /\ row.consultantId \in DOMAIN m.consultants
    /\ row.clientId \in DOMAIN m.clients
    /\ row.serviceId \in DOMAIN m.services
    /\ row.sectorId = NoId \/ row.sectorId \in DOMAIN m.sectors
    /\ row.serviceTypeId = NoId \/ row.serviceTypeId \in DOMAIN m.serviceTypes
    /\ row.projectId = NoId \/ row.projectId \in DOMAIN m.projects

Master ==
    [clients |-> clients, consultants |-> consultants, services |-> services,
     sectors |-> sectors, serviceTypes |-> serviceTypes, projects |-> projects]

\* a row of time_entries from the values given: a column not given is NULL
RowOf(id, values) ==
    [id |-> id, date |-> values.date, consultantId |-> values.consultantId,
     clientId |-> values.clientId, serviceId |-> values.serviceId,
     sectorId |-> IF Has(values, "sectorId") THEN values.sectorId ELSE NoId,
     serviceTypeId |-> IF Has(values, "serviceTypeId") THEN values.serviceTypeId ELSE NoId,
     projectId |-> IF Has(values, "projectId") THEN values.projectId ELSE NoId,
     startTime |-> values.startTime, endTime |-> values.endTime,
     breakStartTime |-> IF Has(values, "breakStartTime") THEN values.breakStartTime ELSE Null,
     breakEndTime |-> IF Has(values, "breakEndTime") THEN values.breakEndTime ELSE Null,
     serviceLocation |-> IF Has(values, "serviceLocation") THEN values.serviceLocation ELSE Null,
     totalHours |-> StoredHours(values.totalHours),
     totalValue |-> StoredValue(values.totalValue)]

\* db.insert(timeEntries).values(v).returning(): the serial advances even when
\* the insert is rejected
DbInsertTimeEntry(entries, nextId, m, values) ==
    LET row == RowOf(nextId, values)
    IN  IF ForeignKeysHold(row, m)
        THEN Outcome("ok", entries @@ (nextId :> row), nextId + 1)
        ELSE Outcome("throw", entries, nextId + 1)

\* db.update(timeEntries).set(v).where(eq(timeEntries.id, id)).returning()
DbUpdateTimeEntryRow(entries, nextId, m, id, values) ==
    IF DOMAIN values = {} THEN Outcome("throw", entries, nextId)
    ELSE IF id \notin DOMAIN entries THEN Outcome("undefined", entries, nextId)
    ELSE
      LET rounded ==
              [k \in DOMAIN values |->
                  IF k = "totalHours" THEN StoredHours(values[k])
                  ELSE IF k = "totalValue" THEN StoredValue(values[k])
                  ELSE values[k]]
          row == Spread(entries[id], rounded)
      IN  IF ForeignKeysHold(row, m)
          THEN Outcome("ok", [entries EXCEPT ![id] = row], nextId)
          ELSE Outcome("throw", entries, nextId)

\* DatabaseStorage.createTimeEntry
DbCreateTimeEntry(entries, nextId, m, ins) ==
    IF ins.serviceId \notin DOMAIN m.services THEN Outcome("throw", entries, nextId)
    ELSE
      LET totalHours == calculateHours(ins.startTime, ins.endTime,
                            StrOr(ins, "breakStartTime", Null),
                            StrOr(ins, "breakEndTime", Null))
          totalValue == hoursTimesRate(totalHours, m.services[ins.serviceId].hourlyRate)
      IN  DbInsertTimeEntry(entries, nextId, m,
              Spread(ins, [totalHours |-> totalHours, totalValue |-> totalValue]))

\* DatabaseStorage.updateTimeEntry, after its reads: the UPDATE it issues
\* for the entry and the service it has read
DbUpdateValues(existing, service, updateData) ==
    LET totalHours == calculateHours(
                          StrOr(updateData, "startTime", existing.startTime),
                          StrOr(updateData, "endTime", existing.endTime),
                          StrOr(updateData, "breakStartTime", existing.breakStartTime),
                          StrOr(updateData, "breakEndTime", existing.breakEndTime))
        totalValue == hoursTimesRate(totalHours, service.hourlyRate)
    IN  Spread(updateData, [totalHours |-> totalHours, totalValue |-> totalValue])

\* the condition under which DatabaseStorage.updateTimeEntry recalculates
DbNeedsRecalc(updateData) ==
    \/ StrOr(updateData, "startTime", Null) # Null
    \/ StrOr(updateData, "endTime", Null) # Null
    \/ StrOr(updateData, "breakStartTime", Null) # Null
    \/ StrOr(updateData, "breakEndTime", Null) # Null
    \/ IdOr(updateData, "serviceId", NoId) # NoId

\* DatabaseStorage.updateTimeEntry, run without interruption
DbUpdateTimeEntry(entries, nextId, m, id, updateData) ==
    IF DbNeedsRecalc(updateData)
    THEN IF id \notin DOMAIN entries THEN Outcome("undefined", entries, nextId)
         ELSE
           LET existing == entries[id]
               serviceId == IdOr(updateData, "serviceId", existing.serviceId)
           IN  IF serviceId \notin DOMAIN m.services
               THEN Outcome("throw", entries, nextId)
               ELSE DbUpdateTimeEntryRow(entries, nextId, m, id,
                        DbUpdateValues(existing, m.services[serviceId], updateData))
    ELSE DbUpdateTimeEntryRow(entries, nextId, m, id, updateData)

\* storage.createTimeEntry / storage.updateTimeEntry on the backend in use
CreateTimeEntry(b, entries, nextId, m, ins) ==
    IF b = "mem" THEN MemCreateTimeEntry(entries, nextId, m.services, ins)
    ELSE DbCreateTimeEntry(entries, nextId, m, ins)

UpdateTimeEntry(b, entries, nextId, m, id, updateData) ==
    IF b = "mem" THEN MemUpdateTimeEntry(entries, nextId, m.services, id, updateData)
    ELSE DbUpdateTimeEntry(entries, nextId, m, id, updateData)

(***************************************************************************)
(* Time entries: routes                                                    *)
(***************************************************************************)
\* the columns insertTimeEntrySchema keeps: id, totalHours, totalValue are omitted
RequiredKeys == {"date", "consultantId", "clientId", "serviceId", "startTime", "endTime"}
NullableKeys ==
    {"sectorId", "serviceTypeId", "projectId", "breakStartTime", "breakEndTime",
     "serviceLocation"}
SchemaKeys == RequiredKeys \cup NullableKeys
StringKeys == {"date", "startTime", "endTime"}

\* a notNull column given as null does not parse
NotNullOk(body) == \A k \in StringKeys \cap DOMAIN body : body[k] # Null

\* insertTimeEntrySchema.parse(req.body): unknown keys are stripped
ParseInsertTimeEntry(body) ==
    IF RequiredKeys \subseteq DOMAIN body /\ NotNullOk(body)
    THEN [ok |-> TRUE, data |-> [k \in DOMAIN body \cap SchemaKeys |-> body[k]]]
    ELSE [ok |-> FALSE, data |-> NoRows]

\* insertTimeEntrySchema.partial() without the omit of totalHours and totalValue
ParsePartialKeepingTotals(body) ==
    IF NotNullOk(body)
    THEN [ok |-> TRUE,
          data |-> [k \in DOMAIN body \cap (SchemaKeys \cup {"totalHours", "totalValue"})
                        |-> body[k]]]
    ELSE [ok |-> FALSE, data |-> NoRows]

\* insertTimeEntrySchema.partial().parse(req.body)
ParsePartialTimeEntry(body) ==
    IF NotNullOk(body)
    THEN [ok |-> TRUE, data |-> [k \in DOMAIN body \cap SchemaKeys |-> body[k]]]
    ELSE [ok |-> FALSE, data |-> NoRows]

\* res.status(201).json(timeEntry), or the catch block's 500
PostAnswer(out) == [status |-> IF out.result = "ok" THEN 201 ELSE 500, out |-> out]

\* res.json(timeEntry), 404 when the storage returned nothing, or the catch block's 500
PutAnswer(out) ==
    [status |-> CASE out.result = "ok" -> 200
                  [] out.result = "undefined" -> 404
                  [] OTHER -> 500,
     out |-> out]

\* the handler of POST /api/time-entries: the outcome and the status it answers
PostTimeEntryResult(b, entries, nextId, m, body) ==
    LET parsed == ParseInsertTimeEntry(body)
    IN  IF ~parsed.ok THEN [status |-> 400, out |-> Outcome("invalid", entries, nextId)]
        ELSE PostAnswer(CreateTimeEntry(b, entries, nextId, m, parsed.data))

\* the handler of PUT /api/time-entries/:id
PutTimeEntryResult(b, entries, nextId, m, id, body) ==
    LET parsed == ParsePartialTimeEntry(body)
    IN  IF ~parsed.ok THEN [status |-> 400, out |-> Outcome("invalid", entries, nextId)]
        ELSE PutAnswer(UpdateTimeEntry(b, entries, nextId, m, id, parsed.data))

(***************************************************************************)
(* The calculators applied to drawn arguments                              *)
(***************************************************************************)
ClockHours == {8, 12, 13, 16, 17}
ClockMinutes == {0, 20, 30}
Clocks == ClockHours \X ClockMinutes
BreakClocks == {<<12, 0>>, <<12, 30>>, <<13, 0>>}
NoBreak == <<>>
Breaks == {NoBreak} \cup (BreakClocks \X BreakClocks)
CalcRates == {0, 7150, 14200}

ClockStr(c) == TimeStr(c[1], c[2])
ClockMin(c) == c[1] * 60 + c[2]

NoResult == [by |-> "none", hours |-> 0, value |-> 0]

CalcInit ==
    /\ calcIn \in [start : Clocks, end : Clocks, brk : Breaks, rate : CalcRates]
    /\ calcOut = NoResult
    /\ BrowserIdle
    /\ StoreInit("db")

BreakStartStr(in) == IF in.brk = NoBreak THEN Null ELSE ClockStr(in.brk[1])
BreakEndStr(in) == IF in.brk = NoBreak THEN Null ELSE ClockStr(in.brk[2])

MemCalculate ==
    /\ calcOut.by = "none"
    /\ LET r == calculateHoursAndValue(ClockStr(calcIn.start), ClockStr(calcIn.end),
                    DecimalStr(calcIn.rate), BreakStartStr(calcIn), BreakEndStr(calcIn))
       IN  calcOut' = [by |-> "mem", hours |-> r.hours, value |-> r.value]
    /\ UNCHANGED <<calcIn, storeVars, httpVars, browserVars>>

DbCalculate ==
    /\ calcOut.by = "none"
    /\ LET h == calculateHours(ClockStr(calcIn.start), ClockStr(calcIn.end),
                    BreakStartStr(calcIn), BreakEndStr(calcIn))
       IN  calcOut' = [by |-> "db", hours |-> h,
                       value |-> hoursTimesRate(h, DecimalStr(calcIn.rate))]
    /\ UNCHANGED <<calcIn, storeVars, httpVars, browserVars>>

CalcNext == MemCalculate \/ DbCalculate

SpecCalc == CalcInit /\ [][CalcNext]_vars

(***************************************************************************)
(* The server handling requests one after another                          *)
(***************************************************************************)
MaxWrites == 3

Remote == <<"R", "e", "m", "o", "t", "o">>

\* the body the time-entry form posts
FormBody(day, clientId, serviceId, startTime, endTime) ==
    [date |-> DateStr(2024, 12, day), consultantId |-> 3, clientId |-> clientId,
     serviceId |-> serviceId, startTime |-> startTime, endTime |-> endTime]

PostBodies ==
    { FormBody(4, 1, 1, T(9, 0), T(12, 0)),
      Spread(FormBody(5, 2, 3, T(8, 0), T(17, 0)),
             [breakStartTime |-> T(12, 0), breakEndTime |-> T(13, 0),
              sectorId |-> 3, serviceLocation |-> Remote]),
      Spread(FormBody(4, 1, 1, T(9, 0), T(12, 0)),
             [totalHours |-> 99 * HoursUnit, totalValue |-> 1 * ValueUnit]),
      FormBody(4, 1, 9, T(9, 0), T(12, 0)),
      FormBody(4, 9, 1, T(9, 0), T(12, 0)),
      Without(FormBody(4, 1, 1, T(9, 0), T(12, 0)), {"endTime"}) }

PutBodies ==
    { [startTime |-> T(9, 0)],
      [endTime |-> T(18, 0)],
      [breakStartTime |-> Null, breakEndTime |-> Null],
      [breakStartTime |-> T(12, 0), breakEndTime |-> T(12, 30)],
      [serviceId |-> 3],
      [serviceLocation |-> Remote],
      [totalHours |-> 99 * HoursUnit, totalValue |-> 1 * ValueUnit],
      [endTime |-> T(18, 0), totalHours |-> 99 * HoursUnit],
      [startTime |-> Null] }

TimeEntryIds == {1, 2, 9}
ClientIds == {1, 3}

StoreIdle ==
    /\ calcIn = [start |-> <<8, 0>>, end |-> <<8, 0>>, brk |-> NoBreak, rate |-> 0]
    /\ calcOut = NoResult
    /\ BrowserIdle

ServerInit ==
    /\ \E b \in {"mem", "db"} : StoreInit(b)
    /\ StoreIdle

Handled(route, id, body, status) ==
    /\ request.writes < MaxWrites
    /\ request' = [writes |-> request.writes + 1, route |-> route, id |-> id, body |-> body]
    /\ response' = [status |-> status, data |-> NoData]

\* a handler that runs to its response without yielding
Atomic(route, id, body, status) ==
    /\ Handled(route, id, body, status)
    /\ UNCHANGED inflight

\* a time-entry handler's result r: the store it leaves and the status it answers
TimeEntryHandled(route, id, body, r) ==
    /\ Atomic(route, id, body, r.status)
    /\ timeEntries' = r.out.entries
    /\ currentTimeEntryId' = r.out.nextId
    /\ UNCHANGED <<calcVars, browserVars, backend, masterVars>>

\* POST /api/time-entries with this body
PostTimeEntryWith(body) ==
    TimeEntryHandled("POST /api/time-entries", NoId, body,
        PostTimeEntryResult(backend, timeEntries, currentTimeEntryId, Master, body))

\* PUT /api/time-entries/:id with this id and body
PutTimeEntryWith(id, body) ==
    TimeEntryHandled("PUT /api/time-entries/:id", id, body,
        PutTimeEntryResult(backend, timeEntries, currentTimeEntryId, Master, id, body))

\* POST /api/time-entries
PostTimeEntry ==
    \E body \in PostBodies :
        PostTimeEntryWith(body)

\* PUT /api/time-entries/:id
PutTimeEntry ==
    \E id \in TimeEntryIds, body \in PutBodies :
        PutTimeEntryWith(id, body)

\* DELETE /api/time-entries/:id
DeleteTimeEntry ==
    \E id \in TimeEntryIds :
        /\ Atomic("DELETE /api/time-entries/:id", id, NoRows,
                  IF id \in DOMAIN timeEntries THEN 204 ELSE 404)
        /\ timeEntries' = DeleteTimeEntryRows(timeEntries, id)
        /\ UNCHANGED <<calcVars, browserVars, backend, masterVars, currentTimeEntryId>>

\* a row of clients is referenced by services, sectors, projects or time_entries
ClientReferenced(id) ==
    \/ \E i \in DOMAIN services : services[i].clientId = id
    \/ \E i \in DOMAIN sectors : sectors[i].clientId = id
    \/ \E i \in DOMAIN projects : projects[i].clientId = id
    \/ \E i \in DOMAIN timeEntries : timeEntries[i].clientId = id

\* MemStorage.deleteClient / DatabaseStorage.deleteClient: "ok", "absent", "throw"
DeleteClientResult(id) ==
    IF id \notin DOMAIN clients THEN "absent"
    ELSE IF backend = "db" /\ ClientReferenced(id) THEN "throw"
    ELSE "ok"

\* DELETE /api/clients/:id
DeleteClient ==
    \E id \in ClientIds :
        LET res == DeleteClientResult(id)
        IN  /\ Atomic("DELETE /api/clients/:id", id, NoRows,
                       CASE res = "ok" -> 204 [] res = "absent" -> 404 [] OTHER -> 500)
            /\ clients' = IF res = "ok"
                          THEN [i \in DOMAIN clients \ {id} |-> clients[i]]
                          ELSE clients
            /\ UNCHANGED <<calcVars, browserVars, backend, consultants, services, sectors, serviceTypes,
                           projects, counterVars, timeEntries, currentTimeEntryId>>

\* the tables a time entry points into, with the column that points
Relations ==
    [consultants |-> "consultantId", services |-> "serviceId", sectors |-> "sectorId",
     serviceTypes |-> "serviceTypeId", projects |-> "projectId"]

\* the ids the delete requests name: the ones the sample entries point to
DeletedIds ==
    [consultants |-> 3, services |-> 1, sectors |-> 1, serviceTypes |-> 1, projects |-> 1]

\* MemStorage.deleteX is Map.delete; DatabaseStorage.deleteX is a DELETE the
\* references of time_entries can refuse: "ok", "absent", "throw"
DeleteMasterResult(table, id) ==
    IF id \notin DOMAIN Master[table] THEN "absent"
    ELSE IF backend = "db"
            /\ \E i \in DOMAIN timeEntries : timeEntries[i][Relations[table]] = id
    THEN "throw"
    ELSE "ok"

\* DELETE /api/consultants/:id, /api/services/:id, /api/sectors/:id,
\* /api/service-types/:id, /api/projects/:id
DeleteMasterIn(tables) ==
    \E table \in tables :
        LET id == DeletedIds[table]
            res == DeleteMasterResult(table, id)
            kept(rows) == IF res = "ok" THEN [i \in DOMAIN rows \ {id} |-> rows[i]] ELSE rows
        IN  /\ Atomic("DELETE /api/" \o table \o "/:id", id, NoRows,
                      CASE res = "ok" -> 204 [] res = "absent" -> 404 [] OTHER -> 500)
            /\ consultants' = IF table = "consultants" THEN kept(consultants) ELSE consultants
            /\ services' = IF table = "services" THEN kept(services) ELSE services
            /\ sectors' = IF table = "sectors" THEN kept(sectors) ELSE sectors
            /\ serviceTypes' = IF table = "serviceTypes" THEN kept(serviceTypes)
                               ELSE serviceTypes
            /\ projects' = IF table = "projects" THEN kept(projects) ELSE projects
            /\ UNCHANGED <<calcVars, browserVars, backend, clients, counterVars, timeEntries,
                           currentTimeEntryId>>

\* the rows the groupings of the aggregations look up
DeleteMaster == DeleteMasterIn({"consultants", "sectors", "serviceTypes", "projects"})

DeleteService == DeleteMasterIn({"services"})

ServerNext ==
    \/ PostTimeEntry
    \/ PutTimeEntry
    \/ DeleteTimeEntry
    \/ DeleteClient
    \/ DeleteService

SpecStore == ServerInit /\ [][ServerNext]_vars

(***************************************************************************)
(* PUT /api/time-entries/:id on the database, await by await               *)
(***************************************************************************)
ConcPutBodies ==
    { [startTime |-> T(9, 0)],
      [endTime |-> T(18, 0)],
      [breakStartTime |-> T(12, 0), breakEndTime |-> T(12, 30)],
      [serviceId |-> 2],
      [serviceLocation |-> Remote],
      [startTime |-> Null] }

ConcIds == {1, 2}

PutRoute == "PUT /api/time-entries/:id"

\* the connection's handler answers and ends
Respond(c, status) ==
    /\ Handled(PutRoute, inflight[c].id, inflight[c].body, status)
    /\ inflight' = [inflight EXCEPT ![c] = [Idle EXCEPT !.pc = "done"]]

\* the handler up to its first await: parse, then updateTimeEntry's condition
PutBegin(c) ==
    /\ inflight[c].pc = "idle"
    /\ \E id \in ConcIds, body \in ConcPutBodies :
          LET parsed == ParsePartialTimeEntry(body)
              started == [Idle EXCEPT !.id = id, !.body = body, !.updateData = parsed.data]
          IN  IF ~parsed.ok
              THEN /\ Handled(PutRoute, id, body, 400)
                   /\ inflight' = [inflight EXCEPT ![c] = [Idle EXCEPT !.pc = "done"]]
              ELSE /\ inflight' = [inflight EXCEPT ![c] =
                          IF DbNeedsRecalc(parsed.data)
                          THEN [started EXCEPT !.pc = "getTimeEntry"]
                          ELSE [started EXCEPT !.pc = "update", !.values = parsed.data]]
                   /\ UNCHANGED <<request, response>>
    /\ UNCHANGED <<calcVars, browserVars, storeVars>>

\* const existing = await this.getTimeEntry(id)
PutGetTimeEntry(c) ==
    /\ inflight[c].pc = "getTimeEntry"
    /\ IF inflight[c].id \in DOMAIN timeEntries
       THEN /\ inflight' = [inflight EXCEPT ![c].pc = "getService",
                                            ![c].existing = timeEntries[inflight[c].id]]
            /\ UNCHANGED <<request, response>>
       ELSE Respond(c, 404)
    /\ UNCHANGED <<calcVars, browserVars, storeVars>>

\* const service = await this.getService(serviceId), then the calculation
PutGetService(c) ==
    /\ inflight[c].pc = "getService"
    /\ LET serviceId == IdOr(inflight[c].updateData, "serviceId", inflight[c].existing.serviceId)
       IN  IF serviceId \in DOMAIN services
           THEN /\ inflight' = [inflight EXCEPT ![c].pc = "update",
                                   ![c].values = DbUpdateValues(inflight[c].existing,
                                                     services[serviceId],
                                                     inflight[c].updateData)]
                /\ UNCHANGED <<request, response>>
           ELSE Respond(c, 500)
    /\ UNCHANGED <<calcVars, browserVars, storeVars>>

\* await db.update(timeEntries).set(...).where(...).returning(), then the answer
PutUpdate(c) ==
    /\ inflight[c].pc = "update"
    /\ LET out == DbUpdateTimeEntryRow(timeEntries, currentTimeEntryId, Master,
                                       inflight[c].id, inflight[c].values)
       IN  /\ timeEntries' = out.entries
           /\ Respond(c, CASE out.result = "ok" -> 200
                           [] out.result = "undefined" -> 404
                           [] OTHER -> 500)
    /\ UNCHANGED <<calcVars, browserVars, backend, masterVars, currentTimeEntryId>>

ConcInit ==
    /\ StoreInit("db")
    /\ StoreIdle

\* services never change here, so createTimeEntry's read of the service and
\* its INSERT are taken in one step
ConcNext ==
    \/ PostTimeEntry
    \/ \E c \in Connections : PutBegin(c)
    \/ \E c \in Connections : PutGetTimeEntry(c)
    \/ \E c \in Connections : PutGetService(c)
    \/ \E c \in Connections : PutUpdate(c)

SpecConc == ConcInit /\ [][ConcNext]_vars

(***************************************************************************)
(* Reports                                                                 *)
(***************************************************************************)
\* parseFloat(entry.totalHours): MemStorage keeps hours.toString(), which
\* parses back to hours = minutes / 60; the database returns its decimal(5,2)
ParseTotalHours(e) == DFromRatio(e.totalHours, HoursUnit)

\* parseFloat(entry.totalValue): MemStorage keeps (hours * rate).toString(),
\* the binary64 product of hours and its whole-number rate; the database
\* returns its decimal(10,2)
ParseTotalValue(b, e) ==
    IF e.totalValue = NaN THEN DNaN
    ELSE IF b = "mem" /\ e.totalHours # 0
    THEN CASE e.totalValue % (e.totalHours * RateUnit) = 0 ->
              DTimes(ParseTotalHours(e), e.totalValue \div (e.totalHours * RateUnit))
    ELSE DFromRatio(e.totalValue, ValueUnit)

\* new Set(xs) / the keys of an object filled from xs: first occurrences, in order
RECURSIVE UniqueFrom(_, _, _)
UniqueFrom(xs, i, acc) ==
    IF i > Len(xs) THEN acc
    ELSE IF \E j \in 1 .. Len(acc) : acc[j] = xs[i]
    THEN UniqueFrom(xs, i + 1, acc)
    ELSE UniqueFrom(xs, i + 1, Append(acc, xs[i]))

Unique(xs) == UniqueFrom(xs, 1, <<>>)

\* clientBreakdown.sort((a, b) => b.value - a.value): stable, by value descending
RECURSIVE SortByValueFrom(_, _, _)
SortByValueFrom(xs, i, acc) ==
    IF i > Len(xs) THEN acc
    ELSE
      LET ahead == {j \in 1 .. Len(acc) : ~DLess(acc[j].value, xs[i].value)}
          n == Cardinality(ahead)
      IN  SortByValueFrom(xs, i + 1,
              SubSeq(acc, 1, n) \o <<xs[i]>> \o SubSeq(acc, n + 1, Len(acc)))

\* the sort with the comparator turned round: (a, b) => a.value - b.value
SortByValueAscending(xs) ==
    LET sorted == SortByValueFrom(xs, 1, <<>>)
    IN  [i \in 1 .. Len(sorted) |-> sorted[Len(sorted) + 1 - i]]

SortByValue(xs) == SortByValueFrom(xs, 1, <<>>)

\* the orders in which the rows with the ids in S can come
RECURSIVE Orders(_)
Orders(S) ==
    IF S = {} THEN {<<>>}
    ELSE UNION {{<<x>> \o o : o \in Orders(S \ {x})} : x \in S}

\* ids in ascending order: the order a Map filled by createTimeEntry iterates in
RECURSIVE Ascending(_)
Ascending(S) ==
    IF S = {} THEN <<>>
    ELSE LET least == CHOOSE x \in S : \A y \in S : x <= y
         IN  <<least>> \o Ascending(S \ {least})

NoFilters == [startDate |-> Null, endDate |-> Null, clientId |-> NoId, consultantId |-> NoId]

\* the filters with entry.date < filters.endDate
MatchesBeforeEnd(e, filters) ==
    /\ Truthy(filters.startDate) => StrLeq(filters.startDate, e.date)
    /\ Truthy(filters.endDate) => ~StrLeq(filters.endDate, e.date)
    /\ filters.clientId # NoId => e.clientId = filters.clientId
    /\ filters.consultantId # NoId => e.consultantId = filters.consultantId

\* the entries the filters of getReportData let through
Matches(e, filters) ==
    /\ Truthy(filters.startDate) => StrLeq(filters.startDate, e.date)
    /\ Truthy(filters.endDate) => StrLeq(e.date, filters.endDate)
    /\ filters.clientId # NoId => e.clientId = filters.clientId
    /\ filters.consultantId # NoId => e.consultantId = filters.consultantId

\* an entry as the report reads it: time_entries LEFT JOIN clients, or the
\* entry with this.clients.get(clientId); "" where there is no client
ReportRow(id) ==
    LET e == timeEntries[id]
    IN  [id |-> id, clientId |-> e.clientId,
         clientName |-> IF e.clientId \in DOMAIN clients
                        THEN clients[e.clientId].name ELSE "",
         hours |-> ParseTotalHours(e), value |-> ParseTotalValue(backend, e)]

Column(rows, f) == [i \in 1 .. Len(rows) |-> rows[i][f]]

\* one element of clientBreakdown
ClientGroup(b, rows, clientId) ==
    LET clientEntries == SelectSeq(rows, LAMBDA r : r.clientId = clientId)
        clientName == clientEntries[1].clientName
    IN  [clientId |-> clientId,
         clientName |-> IF b = "db" /\ clientName = "" THEN "Unknown" ELSE clientName,
         hours |-> DSum(Column(clientEntries, "hours")),
         value |-> DSum(Column(clientEntries, "value")),
         entries |-> Len(clientEntries)]

\* getReportData pushing a group for every client id, found or not
ReportOfPushingAll(b, rows) ==
    LET clientIds == Unique(Column(rows, "clientId"))
        groups == [i \in 1 .. Len(clientIds) |-> ClientGroup(b, rows, clientIds[i])]
    IN  [kind |-> "report",
         rows |-> rows,
         totalHours |-> DSum(Column(rows, "hours")),
         totalValue |-> DSum(Column(rows, "value")),
         totalEntries |-> Len(rows),
         totalClients |-> Len(clientIds),
         clientBreakdown |-> SortByValue(groups)]

\* MemStorage.getReportData / DatabaseStorage.getReportData on the filtered rows
ReportOf(b, rows) ==
    LET clientIds == Unique(Column(rows, "clientId"))
        groups == [i \in 1 .. Len(clientIds) |-> ClientGroup(b, rows, clientIds[i])]
        \* MemStorage: if (!client) return;
        pushed == IF b = "mem"
                  THEN SelectSeq(groups, LAMBDA g : g.clientName # "")
                  ELSE groups
    IN  [kind |-> "report",
         rows |-> rows,
         totalHours |-> DSum(Column(rows, "hours")),
         totalValue |-> DSum(Column(rows, "value")),
         totalEntries |-> Len(rows),
         totalClients |-> Len(clientIds),
         clientBreakdown |-> SortByValue(pushed)]

\* the orders the filtered entries can be read in: the Map's, or any for a
\* SELECT without ORDER BY
RowOrders(b, ids) == IF b = "mem" THEN {Ascending(ids)} ELSE Orders(ids)

MaxEntries == 3

ReportPostBodies ==
    { FormBody(4, 1, 1, T(8, 0), T(8, 6)),
      FormBody(5, 1, 2, T(8, 0), T(8, 12)),
      FormBody(6, 1, 1, T(8, 0), T(8, 18)),
      Spread(FormBody(7, 2, 3, T(8, 0), T(16, 0)),
             [sectorId |-> 3, serviceTypeId |-> 4, projectId |-> 1,
              serviceLocation |-> Remote]) }

ReportFilters ==
    { NoFilters,
      [NoFilters EXCEPT !.startDate = DateStr(2024, 12, 2), !.endDate = DateStr(2024, 12, 6)],
      [NoFilters EXCEPT !.endDate = DateStr(2024, 12, 5), !.clientId = 1, !.consultantId = 3] }

\* POST /api/time-entries with the bodies of the report scenarios
PostReportEntry ==
    /\ Cardinality(DOMAIN timeEntries) < MaxEntries
    /\ \E body \in ReportPostBodies :
        PostTimeEntryWith(body)

\* a GET: the store stays as it is and the answer carries the data.  A GET
\* reads nothing a GET before it left behind, so the answers to a store are
\* all taken from the state its last write left
Answered(route, query, data) ==
    /\ response.data = NoData
    /\ request' = [request EXCEPT !.route = route, !.id = NoId, !.body = query]
    /\ response' = [status |-> 200, data |-> data]
    /\ UNCHANGED <<calcVars, browserVars, storeVars, inflight>>

\* GET /api/reports/data
GetReportData ==
    \E filters \in ReportFilters :
        \E order \in RowOrders(backend,
                        {id \in DOMAIN timeEntries : Matches(timeEntries[id], filters)}) :
            Answered("GET /api/reports/data", filters,
                     ReportOf(backend, [i \in 1 .. Len(order) |-> ReportRow(order[i])]))

\* a group's name on the analytics page: a fixed or looked-up label, the id
\* a fallback label ends in, or the entry's own text
GroupName(label, n, text) == [label |-> label, n |-> n, text |-> text]

\* projectGroups' key
ProjectName(e) ==
    IF e.projectId # NoId /\ DOMAIN projects # {}
    THEN IF e.projectId \in DOMAIN projects
         THEN GroupName(projects[e.projectId].name, 0, Null)
         ELSE GroupName("Projeto ", e.projectId, Null)
    ELSE GroupName("Sem Projeto", 0, Null)

\* locationGroups' key
LocationName(e) ==
    IF Truthy(e.serviceLocation) THEN GroupName("", 0, e.serviceLocation)
    ELSE GroupName("Nao Informado", 0, Null)

\* sectorGroups' key; only getTimeEntriesByDateRange of the database joins sectors
SectorName(e, joined) ==
    IF joined /\ e.sectorId \in DOMAIN sectors /\ sectors[e.sectorId].description # ""
    THEN GroupName(sectors[e.sectorId].description, 0, Null)
    ELSE IF e.sectorId # NoId THEN GroupName("Setor ", e.sectorId, Null)
    ELSE GroupName("Sem Setor", 0, Null)

\* serviceTypeGroups' key
ServiceTypeName(e) ==
    IF e.serviceTypeId # NoId
    THEN IF e.serviceTypeId \in DOMAIN serviceTypes
         THEN GroupName(serviceTypes[e.serviceTypeId].code, 0, Null)
         ELSE GroupName("T", e.serviceTypeId, Null)
    ELSE GroupName("NULO", 0, Null)

\* GET /api/time-entries/filtered uses the date range only when both ends are given
UsesDateRange(query) == Truthy(query.startDate) /\ Truthy(query.endDate)

\* the entries GET /api/time-entries/filtered answers with
Filtered(b, e, query) ==
    /\ b = "mem" => /\ e.consultantId \in DOMAIN consultants
                    /\ e.clientId \in DOMAIN clients
                    /\ e.serviceId \in DOMAIN services
    /\ UsesDateRange(query) =>
          StrLeq(query.startDate, e.date) /\ StrLeq(e.date, query.endDate)
    /\ query.clientId # NoId => e.clientId = query.clientId
    /\ query.consultantId # NoId => e.consultantId = query.consultantId

\* MemStorage.getTimeEntries' sort: by date, latest first, stable
RECURSIVE SortByDateFrom(_, _, _)
SortByDateFrom(ids, i, acc) ==
    IF i > Len(ids) THEN acc
    ELSE
      LET ahead == {j \in 1 .. Len(acc) :
                      StrLeq(timeEntries[ids[i]].date, timeEntries[acc[j]].date)}
          n == Cardinality(ahead)
      IN  SortByDateFrom(ids, i + 1,
              SubSeq(acc, 1, n) \o <<ids[i]>> \o SubSeq(acc, n + 1, Len(acc)))

FilteredOrders(b, ids) ==
    IF b = "mem" THEN {SortByDateFrom(Ascending(ids), 1, <<>>)} ELSE Orders(ids)

\* an entry as the page's reducers read it
AnalyticsRow(id, query) ==
    LET e == timeEntries[id]
    IN  [id |-> id,
         project |-> ProjectName(e),
         location |-> LocationName(e),
         sector |-> SectorName(e, backend = "db" /\ UsesDateRange(query)),
         serviceType |-> ServiceTypeName(e),
         hours |-> ParseTotalHours(e), value |-> ParseTotalValue(backend, e)]

\* Object.entries(groups).map(...): hours and value after toFixed(2), in hundredths
Stats(rows, dimension) ==
    LET names == Unique(Column(rows, dimension))
    IN  [i \in 1 .. Len(names) |->
            LET members == SelectSeq(rows, LAMBDA r : r[dimension] = names[i])
            IN  [name |-> names[i],
                 hours |-> ToFixed2(DSum(Column(members, "hours"))),
                 value |-> ToFixed2(DSum(Column(members, "value")))]]

\* analyticsData
AnalyticsOf(rows) ==
    [kind |-> "analytics",
     rows |-> rows,
     projectStats |-> Stats(rows, "project"),
     serviceLocationStats |-> Stats(rows, "location"),
     sectorStats |-> Stats(rows, "sector"),
     serviceTypeStats |-> Stats(rows, "serviceType"),
     totalHours |-> DSum(Column(rows, "hours")),
     totalValue |-> DSum(Column(rows, "value")),
     totalEntries |-> Len(rows)]

\* the analytics page: GET /api/time-entries/filtered, then the grouping
GetAnalytics ==
    \E query \in ReportFilters :
        \E order \in FilteredOrders(backend,
                        {id \in DOMAIN timeEntries :
                            Filtered(backend, timeEntries[id], query)}) :
            Answered("GET /api/time-entries/filtered", query,
                     AnalyticsOf([i \in 1 .. Len(order) |-> AnalyticsRow(order[i], query)]))

ReportNext ==
    \/ PostReportEntry
    \/ DeleteTimeEntry
    \/ DeleteClient
    \/ GetReportData
    \/ GetAnalytics

SpecReport == ServerInit /\ [][ReportNext]_vars

(***************************************************************************)
(* Aggregations over a store whose master data is being deleted            *)
(***************************************************************************)
\* the month asked for, or today's: `${targetYear}-${targetMonth padded}`
Months == {<<2024, 12>>, <<2025, 1>>}

MonthStr(ym) == SubSeq(DateStr(ym[1], ym[2], 1), 1, 7)

\* MemStorage: entry.date.startsWith(monthStr); DatabaseStorage:
\* date >= monthStr + '-01' AND date < monthStr + '-32'
InMonth(b, date, monthStr) ==
    IF b = "mem"
    THEN Len(date) >= Len(monthStr) /\ SubSeq(date, 1, Len(monthStr)) = monthStr
    ELSE /\ StrLeq(monthStr \o <<"-", "0", "1">>, date)
         /\ ~StrLeq(monthStr \o <<"-", "3", "2">>, date)

\* an entry as getDashboardStats reads it, "" where the consultant or the
\* client is not there
DashboardRow(id) ==
    LET e == timeEntries[id]
    IN  [id |-> id, consultantId |-> e.consultantId, clientId |-> e.clientId,
         consultantName |-> IF e.consultantId \in DOMAIN consultants
                            THEN consultants[e.consultantId].name ELSE "",
         clientName |-> IF e.clientId \in DOMAIN clients
                        THEN clients[e.clientId].name ELSE "",
         hours |-> ParseTotalHours(e), value |-> ParseTotalValue(backend, e)]

\* consultantStats / clientStats: the entries whose consultant (client) is
\* there, by id, in the order the ids first come
StatsBy(rows, idField, nameField) ==
    LET known == SelectSeq(rows, LAMBDA r : r[idField] # NoId /\ r[nameField] # "")
        ids == Unique(Column(known, idField))
    IN  [i \in 1 .. Len(ids) |->
            LET members == SelectSeq(known, LAMBDA r : r[idField] = ids[i])
            IN  [id |-> ids[i], name |-> members[1][nameField],
                 totalHours |-> DSum(Column(members, "hours")),
                 totalValue |-> DSum(Column(members, "value"))]]

\* MemStorage.getDashboardStats / DatabaseStorage.getDashboardStats
DashboardOf(rows, clientsCount) ==
    LET consultantStats == StatsBy(rows, "consultantId", "consultantName")
    IN  [kind |-> "dashboard",
         rows |-> rows,
         totalClients |-> clientsCount,
         monthlyHours |-> DSum(Column(rows, "hours")),
         monthlyRevenue |-> DSum(Column(rows, "value")),
         activeConsultants |-> Len(consultantStats),
         consultantStats |-> consultantStats,
         clientStats |-> StatsBy(rows, "clientId", "clientName")]

\* GET /api/dashboard/stats
GetDashboardStats ==
    \E ym \in Months :
        \E order \in RowOrders(backend,
                        {id \in DOMAIN timeEntries :
                            InMonth(backend, timeEntries[id].date, MonthStr(ym))}) :
            Answered("GET /api/dashboard/stats", [year |-> ym[1], month |-> ym[2]],
                     DashboardOf([i \in 1 .. Len(order) |-> DashboardRow(order[i])],
                                 Cardinality(DOMAIN clients)))

MaxAggEntries == 4

AggPostBodies ==
    { Spread(FormBody(6, 2, 3, T(8, 0), T(16, 0)),
             [sectorId |-> 1, serviceTypeId |-> 1, projectId |-> 1,
              serviceLocation |-> Remote]),
      FormBody(5, 3, 2, T(9, 0), T(10, 30)) }

\* POST /api/time-entries with the bodies of the aggregation scenarios
PostAggEntry ==
    /\ Cardinality(DOMAIN timeEntries) < MaxAggEntries
    /\ \E body \in AggPostBodies :
        PostTimeEntryWith(body)

AggNext ==
    \/ PostAggEntry
    \/ DeleteClient
    \/ DeleteMaster
    \/ GetReportData
    \/ GetDashboardStats
    \/ GetAnalytics

SpecAgg == ServerInit /\ [][AggNext]_vars

(***************************************************************************)
(* Time entries with times no form would send                              *)
(***************************************************************************)
\* text where a time is expected: letters, and an hour without minutes
Letters == <<"a", "b", "c">>

HourOnly == <<"8">>

UncheckedPostBodies ==
    { FormBody(4, 1, 1, T(8, 0), T(8, 20)),
      FormBody(5, 2, 3, T(17, 0), T(8, 0)),
      Spread(FormBody(6, 1, 1, T(9, 0), T(12, 0)),
             [breakStartTime |-> T(13, 0), breakEndTime |-> T(14, 0)]),
      FormBody(7, 1, 1, Letters, T(12, 0)),
      FormBody(8, 2, 3, T(8, 0), HourOnly) }

UncheckedPutBodies ==
    { [endTime |-> T(7, 0)],
      [endTime |-> Letters],
      [startTime |-> T(8, 40)] }

\* POST /api/time-entries with these bodies
PostUncheckedEntry ==
    /\ Cardinality(DOMAIN timeEntries) < MaxAggEntries
    /\ \E body \in UncheckedPostBodies :
        PostTimeEntryWith(body)

\* PUT /api/time-entries/:id with these bodies
PutUncheckedEntry ==
    \E id \in ConcIds, body \in UncheckedPutBodies :
        PutTimeEntryWith(id, body)

UncheckedNext ==
    \/ PostUncheckedEntry
    \/ PutUncheckedEntry
    \/ GetReportData
    \/ GetDashboardStats

SpecUnchecked == ServerInit /\ [][UncheckedNext]_vars

(***************************************************************************)
(* Clients, consultants and services: storage and routes                   *)
(***************************************************************************)
\* the rows with the code: getClientByCode / getConsultantByCode find one
ByCode(rows, code) == {i \in DOMAIN rows : rows[i].code = code}

\* createClient / createConsultant: MemStorage sets the row under the next
\* id; the database's INSERT is refused when the code is there already, the
\* serial advancing all the same
CreateCoded(b, rows, nextId, data) ==
    IF b = "db" /\ ByCode(rows, data.code) # {} THEN Outcome("throw", rows, nextId + 1)
    ELSE Outcome("ok", rows @@ (nextId :> data), nextId + 1)

\* updateClient / updateConsultant: { ...client, ...updateData }, or the
\* UPDATE, which the unique code can refuse
UpdateCoded(b, rows, nextId, id, updateData) ==
    IF b = "db" /\ DOMAIN updateData = {} THEN Outcome("throw", rows, nextId)
    ELSE IF id \notin DOMAIN rows THEN Outcome("undefined", rows, nextId)
    ELSE
      LET row == Spread(rows[id], updateData)
      IN  IF b = "db" /\ ByCode(rows, row.code) \ {id} # {}
          THEN Outcome("throw", rows, nextId)
          ELSE Outcome("ok", [rows EXCEPT ![id] = row], nextId)

\* insertClientSchema / insertConsultantSchema, partial for a PUT: the text
\* columns, of which the model keeps code and name
ParseCoded(body, partial) ==
    IF partial \/ {"code", "name"} \subseteq DOMAIN body
    THEN [ok |-> TRUE, data |-> [k \in DOMAIN body \cap {"code", "name"} |-> body[k]]]
    ELSE [ok |-> FALSE, data |-> NoRows]

CodedTables == {"clients", "consultants"}

CodedRows(table) == IF table = "clients" THEN clients ELSE consultants

CodedNextId(table) == IF table = "clients" THEN currentClientId ELSE currentConsultantId

\* the table and its counter after an operation on it; the other one stays
CodedBecomes(table, out) ==
    /\ clients' = IF table = "clients" THEN out.entries ELSE clients
    /\ currentClientId' = IF table = "clients" THEN out.nextId ELSE currentClientId
    /\ consultants' = IF table = "consultants" THEN out.entries ELSE consultants
    /\ currentConsultantId' = IF table = "consultants" THEN out.nextId
                              ELSE currentConsultantId
    /\ UNCHANGED <<calcVars, browserVars, backend, services, sectors, serviceTypes, projects,
                   currentServiceId, timeEntries, currentTimeEntryId>>

CodedPostBodies ==
    [clients |-> {[code |-> "CLI001", name |-> "Outra"], [code |-> "CLI900", name |-> "Nova"],
                  [name |-> "Sem codigo"]},
     consultants |-> {[code |-> "LEON", name |-> "Outro"], [code |-> "CON900", name |-> "Novo"]}]

CodedPutBodies ==
    [clients |-> {[code |-> "CLI002"], [name |-> "Renomeada"]},
     consultants |-> {[code |-> "CON002"], [code |-> "CON900"]}]

CodedIds == {1, 9}

PostCodedRoute(table) == "POST /api/" \o table

\* the connection's handler of POST /api/clients or /api/consultants ends
CodedAnswered(c, table, body, status) ==
    /\ Handled(PostCodedRoute(table), NoId, body, status)
    /\ inflight' = [inflight EXCEPT ![c] = [Idle EXCEPT !.pc = "done"]]

\* POST /api/clients, /api/consultants up to the answer or, with the
\* database, up to the INSERT that follows the awaited getClientByCode;
\* MemStorage's promises are resolved when awaited, so its handler is one step
PostCoded(c) ==
    /\ inflight[c].pc = "idle"
    /\ \E table \in CodedTables :
        \E body \in CodedPostBodies[table] :
          LET parsed == ParseCoded(body, FALSE)
              out == CreateCoded(backend, CodedRows(table), CodedNextId(table), parsed.data)
          IN  IF ~parsed.ok \/ ByCode(CodedRows(table), parsed.data.code) # {}
              THEN /\ CodedAnswered(c, table, body, 400)
                   /\ UNCHANGED <<calcVars, browserVars, storeVars>>
              ELSE IF backend = "mem"
              THEN /\ CodedAnswered(c, table, body, 201)
                   /\ CodedBecomes(table, out)
              ELSE /\ inflight' = [inflight EXCEPT ![c] =
                          [Idle EXCEPT !.pc = table, !.body = body, !.values = parsed.data]]
                   /\ UNCHANGED <<calcVars, browserVars, storeVars, request, response>>

\* await storage.createClient(validatedData), then the answer
PostCodedInsert(c) ==
    /\ inflight[c].pc \in CodedTables
    /\ LET table == inflight[c].pc
           out == CreateCoded(backend, CodedRows(table), CodedNextId(table),
                              inflight[c].values)
       IN  /\ CodedAnswered(c, table, inflight[c].body,
                            IF out.result = "ok" THEN 201 ELSE 500)
           /\ CodedBecomes(table, out)

\* PUT /api/clients/:id, /api/consultants/:id
PutCoded ==
    \E table \in CodedTables :
        \E id \in CodedIds, body \in CodedPutBodies[table] :
          LET out == UpdateCoded(backend, CodedRows(table), CodedNextId(table), id,
                                 ParseCoded(body, TRUE).data)
          IN  /\ Atomic("PUT /api/" \o table \o "/:id", id, body,
                        CASE out.result = "ok" -> 200
                          [] out.result = "undefined" -> 404
                          [] OTHER -> 500)
              /\ CodedBecomes(table, out)

\* insertServiceSchema, partial for a PUT: code a string of one character at
\* least, clientId a number >= 1, hourlyRate a string that parseFloat turns
\* into a number >= 0
ParseInsertService(body, partial) ==
    LET rate == IF Has(body, "hourlyRate") THEN ParseFloat(body.hourlyRate) ELSE 0
    IN  IF /\ partial \/ {"code", "clientId", "hourlyRate"} \subseteq DOMAIN body
           /\ Has(body, "code") => body.code # ""
           /\ Has(body, "clientId") => body.clientId >= 1
           /\ Has(body, "hourlyRate") => rate # NaN /\ rate >= 0
        THEN [ok |-> TRUE,
              data |-> [k \in DOMAIN body \cap {"code", "clientId", "hourlyRate"} |->
                           IF k = "hourlyRate" THEN rate ELSE body[k]]]
        ELSE [ok |-> FALSE, data |-> NoRows]

\* the references and the unique code of a row of services
ServiceRowHolds(rows, id, row) ==
    /\ row.clientId \in DOMAIN clients
    /\ ByCode(rows, row.code) \ {id} = {}

\* MemStorage.createService / DatabaseStorage.createService
CreateService(b, rows, nextId, ins) ==
    IF b = "mem"
    THEN Outcome("ok",
             rows @@ (nextId :> [ins EXCEPT !.hourlyRate = NumberStr(@)]), nextId + 1)
    ELSE LET row == [ins EXCEPT !.hourlyRate = DecimalStr(@)]
         IN  IF ServiceRowHolds(rows, nextId, row)
             THEN Outcome("ok", rows @@ (nextId :> row), nextId + 1)
             ELSE Outcome("throw", rows, nextId + 1)

\* MemStorage.updateService / DatabaseStorage.updateService
UpdateService(b, rows, nextId, id, updateData) ==
    IF b = "mem"
    THEN IF id \notin DOMAIN rows THEN Outcome("undefined", rows, nextId)
         ELSE Outcome("ok",
                  [rows EXCEPT ![id] =
                      Spread(Spread(rows[id], updateData),
                             [hourlyRate |->
                                 IF Has(updateData, "hourlyRate") /\ updateData.hourlyRate # 0
                                 THEN NumberStr(updateData.hourlyRate)
                                 ELSE rows[id].hourlyRate])],
                  nextId)
    ELSE IF DOMAIN updateData = {} THEN Outcome("throw", rows, nextId)
    ELSE IF id \notin DOMAIN rows THEN Outcome("undefined", rows, nextId)
    ELSE
      LET serviceData == [k \in DOMAIN updateData |->
                             IF k = "hourlyRate" THEN DecimalStr(updateData[k])
                             ELSE updateData[k]]
          row == Spread(rows[id], serviceData)
      IN  IF ServiceRowHolds(rows, id, row)
          THEN Outcome("ok", [rows EXCEPT ![id] = row], nextId)
          ELSE Outcome("throw", rows, nextId)

RateBody(code, clientId, hourlyRate) ==
    [code |-> code, clientId |-> clientId, hourlyRate |-> hourlyRate]

ServicePostBodies ==
    { RateBody("NEW001", 1, <<"1", "5", "0">>),
      RateBody("NEW002", 2, <<"9", "9", ".", "5">>),
      RateBody("NEG001", 1, <<"-", "5">>),
      RateBody("ABC001", 1, <<"a", "b", "c">>),
      RateBody("MIX001", 1, <<"1", "2", "a", "b", "c">>),
      RateBody("FAR001", 99, <<"1", "0", "0">>) }

ServicePutBodies ==
    { [hourlyRate |-> <<"0">>],
      [hourlyRate |-> <<"-", "1">>],
      [hourlyRate |-> <<"7", "x">>],
      [clientId |-> 99] }

\* POST /api/services
PostService ==
    \E body \in ServicePostBodies :
        LET parsed == ParseInsertService(body, FALSE)
            out == IF parsed.ok
                   THEN CreateService(backend, services, currentServiceId, parsed.data)
                   ELSE Outcome("invalid", services, currentServiceId)
        IN  /\ Atomic("POST /api/services", NoId, body,
                      CASE out.result = "ok" -> 201
                        [] out.result = "invalid" -> 400
                        [] OTHER -> 500)
            /\ services' = out.entries
            /\ currentServiceId' = out.nextId
            /\ UNCHANGED <<calcVars, browserVars, backend, clients, consultants, sectors, serviceTypes,
                           projects, currentClientId, currentConsultantId, timeEntries,
                           currentTimeEntryId>>

\* PUT /api/services/:id
PutService ==
    \E id \in CodedIds, body \in ServicePutBodies :
        LET parsed == ParseInsertService(body, TRUE)
            out == IF parsed.ok
                   THEN UpdateService(backend, services, currentServiceId, id, parsed.data)
                   ELSE Outcome("invalid", services, currentServiceId)
        IN  /\ Atomic("PUT /api/services/:id", id, body,
                      CASE out.result = "ok" -> 200
                        [] out.result = "invalid" -> 400
                        [] out.result = "undefined" -> 404
                        [] OTHER -> 500)
            /\ services' = out.entries
            /\ currentServiceId' = out.nextId
            /\ UNCHANGED <<calcVars, browserVars, backend, clients, consultants, sectors, serviceTypes,
                           projects, currentClientId, currentConsultantId, timeEntries,
                           currentTimeEntryId>>

MasterNext ==
    \/ \E c \in Connections : PostCoded(c)
    \/ \E c \in Connections : PostCodedInsert(c)
    \/ PutCoded
    \/ PostService
    \/ PutService

SpecMaster == ServerInit /\ [][MasterNext]_vars

(***************************************************************************)
(* Claims about the calculators (SpecCalc)                                 *)
(***************************************************************************)
Calculated == calcOut.by # "none"

WorkMinutes == ClockMin(calcIn.end) - ClockMin(calcIn.start)

BreakMinutes ==
    IF calcIn.brk = NoBreak THEN 0
    ELSE ClockMin(calcIn.brk[2]) - ClockMin(calcIn.brk[1])

BreakInside ==
    /\ calcIn.brk # NoBreak
    /\ ClockMin(calcIn.start) < ClockMin(calcIn.brk[1])
    /\ ClockMin(calcIn.brk[1]) < ClockMin(calcIn.brk[2])
    /\ ClockMin(calcIn.brk[2]) < ClockMin(calcIn.end)

\* C1: with start <= end and no break, both calculators return exactly
\* (end - start) minutes / 60 hours, which is 0 hours when start = end.
C1_NoBreakHours ==
    (Calculated /\ calcIn.brk = NoBreak /\ WorkMinutes >= 0) =>
        /\ calcOut.hours * MinutesPerHour = WorkMinutes * HoursUnit
        /\ (WorkMinutes = 0 => calcOut.hours = 0)

C1_Witness ==
    /\ calcOut.by = "db"
    /\ calcIn.brk = NoBreak
    /\ calcIn.start = <<8, 20>>
    /\ calcIn.end = <<16, 30>>
    /\ calcOut.hours * MinutesPerHour = 490 * HoursUnit

\* C2: with start < breakStart < breakEnd < end, both calculators return
\* ((end - start) - (breakEnd - breakStart)) minutes / 60 hours; 08:00-17:00
\* with break 12:00-13:00 is 8 hours.
C2_BreakInsideHours ==
    (Calculated /\ BreakInside) =>
        /\ calcOut.hours * MinutesPerHour = (WorkMinutes - BreakMinutes) * HoursUnit
        /\ ((calcIn.start = <<8, 0>> /\ calcIn.end = <<17, 0>>
               /\ calcIn.brk = <<<<12, 0>>, <<13, 0>>>>)
              => calcOut.hours = 8 * HoursUnit)

C2_Witness ==
    /\ calcOut.by = "mem"
    /\ calcIn.start = <<8, 0>>
    /\ calcIn.end = <<17, 0>>
    /\ calcIn.brk = <<<<12, 0>>, <<13, 0>>>>
    /\ calcOut.hours = 8 * HoursUnit

\* C3: the computed hours are never negative: whenever (end - start) minus
\* the break is below zero the calculator returns 0.
C3_NeverNegative ==
    Calculated =>
        /\ calcOut.hours >= 0
        /\ calcOut.value >= 0
        /\ (WorkMinutes - BreakMinutes < 0 => calcOut.hours = 0)

\* C4: the value is hours x rate for every non-negative rate, and doubling
\* the rate with the same times doubles the value; 8 hours at 142.00 is 1136.00.
C4_ValueIsHoursTimesRate ==
    Calculated =>
        /\ calcOut.value = calcOut.hours * calcIn.rate
        /\ (calcOut.by = "mem" =>
              calculateHoursAndValue(ClockStr(calcIn.start), ClockStr(calcIn.end),
                  DecimalStr(2 * calcIn.rate), BreakStartStr(calcIn),
                  BreakEndStr(calcIn)).value = 2 * calcOut.value)
        /\ (calcOut.by = "db" =>
              hoursTimesRate(calcOut.hours, DecimalStr(2 * calcIn.rate))
                = 2 * calcOut.value)
        /\ ((calcOut.hours = 8 * HoursUnit /\ calcIn.rate = 14200)
              => calcOut.value = 1136 * ValueUnit)

C4_Witness ==
    /\ calcOut.by = "db"
    /\ calcIn.start = <<8, 30>>
    /\ calcIn.end = <<16, 30>>
    /\ calcIn.brk = NoBreak
    /\ calcIn.rate = 14200
    /\ calcOut.value = 1136 * ValueUnit

(***************************************************************************)
(* Claims about stored time entries (SpecStore)                            *)
(***************************************************************************)
\* the minutes worked according to an entry's stored times and break
StoredMinutes(e) ==
    (timeToMinutes(e.endTime) - timeToMinutes(e.startTime))
      - (IF Truthy(e.breakStartTime) /\ Truthy(e.breakEndTime)
         THEN timeToMinutes(e.breakEndTime) - timeToMinutes(e.breakStartTime)
         ELSE 0)

TotalsCurrent(e) ==
    /\ e.totalHours * MinutesPerHour = Max(0, StoredMinutes(e)) * HoursUnit
    /\ e.serviceId \in DOMAIN services =>
          e.totalValue = e.totalHours * ParseFloat(services[e.serviceId].hourlyRate)

\* C5: after any sequence of creates and updates, every stored entry's
\* totalHours is the duration of its stored times and break, and its
\* totalValue is that duration times the rate of its current service.
C5_DerivedFieldsCurrent ==
    \A id \in DOMAIN timeEntries : TotalsCurrent(timeEntries[id])

CallerTotals == {"totalHours", "totalValue"}

\* what the request handled by this step does when its body carries no totals
WithoutCallerTotals ==
    LET body == Without(request'.body, CallerTotals)
    IN  IF request'.route = "POST /api/time-entries"
        THEN PostTimeEntryResult(backend, timeEntries, currentTimeEntryId, Master, body)
        ELSE PutTimeEntryResult(backend, timeEntries, currentTimeEntryId, Master,
                                request'.id, body)

\* C7: for every POST or PUT on /api/time-entries, totalHours/totalValue in
\* the body have no effect: the store and the answer are those of the same
\* request without them, and no stored entry takes the caller's figures.
C7_CallerTotalsIgnored ==
    [][request'.route \in {"POST /api/time-entries", "PUT /api/time-entries/:id"} =>
          /\ timeEntries' = WithoutCallerTotals.out.entries
          /\ currentTimeEntryId' = WithoutCallerTotals.out.nextId
          /\ response'.status = WithoutCallerTotals.status
          /\ \A id \in DOMAIN timeEntries' :
                \/ ~Has(request'.body, "totalHours")
                \/ timeEntries'[id].totalHours # request'.body.totalHours]_vars

C7_Witness ==
    /\ request.route = "PUT /api/time-entries/:id"
    /\ Has(request.body, "totalHours")
    /\ Has(request.body, "endTime")
    /\ response.status = 200
    /\ timeEntries[request.id].endTime = request.body.endTime
    /\ timeEntries[request.id].totalHours # request.body.totalHours

(***************************************************************************)
(* Claims about interleaved updates (SpecConc)                             *)
(***************************************************************************)
\* an UPDATE that is about to be issued carries the totals with the fields
\* they were calculated from
TotalsInSameWrite(c) ==
    (inflight[c].pc = "update" /\ DbNeedsRecalc(inflight[c].updateData)) =>
        /\ DOMAIN inflight[c].updateData \subseteq DOMAIN inflight[c].values
        /\ CallerTotals \subseteq DOMAIN inflight[c].values

\* C6: when requests writing the same entry interleave, the derived fields
\* go in the same write as the entry's other fields, and no reader ever sees
\* an entry whose stored totals disagree with its stored start, end and break.
C6_NoInconsistentEntry ==
    /\ \A c \in Connections : TotalsInSameWrite(c)
    /\ \A id \in DOMAIN timeEntries :
          timeEntries[id].totalHours * MinutesPerHour
            = Max(0, StoredMinutes(timeEntries[id])) * HoursUnit

(***************************************************************************)
(* Claims about reports (SpecReport)                                       *)
(***************************************************************************)
\* x + y without rounding
ExactAdd(x, y) ==
    IF x.neg = y.neg THEN [neg |-> x.neg, mag |-> AddMag(x.mag, y.mag)]
    ELSE LET c == CmpMag(x.mag, y.mag)
         IN  IF c = 0 THEN DZero
             ELSE IF c > 0 THEN [neg |-> x.neg, mag |-> SubMag(x.mag, y.mag)]
             ELSE [neg |-> y.neg, mag |-> SubMag(y.mag, x.mag)]

RECURSIVE ExactSumFrom(_, _, _)
ExactSumFrom(xs, i, acc) ==
    IF i > Len(xs) THEN acc ELSE ExactSumFrom(xs, i + 1, ExactAdd(acc, xs[i]))

ExactSum(xs) == ExactSumFrom(xs, 1, DZero)

RECURSIVE SumFrom(_, _)
SumFrom(ns, i) == IF i > Len(ns) THEN 0 ELSE ns[i] + SumFrom(ns, i + 1)

Elements(xs) == {xs[i] : i \in 1 .. Len(xs)}

Answer == response.data

\* the hundredths a stat shows, as the numbers parseFloat makes of them
Shown(stats, f) == [i \in 1 .. Len(stats) |-> DFromRatio(stats[i][f], DecimalScale)]

StatsAddUp(stats) ==
    /\ ExactSum(Shown(stats, "hours")) = Answer.totalHours
    /\ ExactSum(Shown(stats, "value")) = Answer.totalValue

\* C8: whenever at least one entry matches, the hours of the client groups
\* of getReportData add up to totalHours and their values to totalValue, and
\* so do the groups of each dimension of the analytics page.
C8_GroupSumsEqualTotals ==
    /\ (Answer.kind = "report" /\ Answer.totalEntries > 0) =>
          /\ ExactSum(Column(Answer.clientBreakdown, "hours")) = Answer.totalHours
          /\ ExactSum(Column(Answer.clientBreakdown, "value")) = Answer.totalValue
    /\ (Answer.kind = "analytics" /\ Answer.totalEntries > 0) =>
          /\ StatsAddUp(Answer.projectStats)
          /\ StatsAddUp(Answer.serviceLocationStats)
          /\ StatsAddUp(Answer.sectorStats)
          /\ StatsAddUp(Answer.serviceTypeStats)

EightHoursAt142(r) ==
    /\ r.hours = DFromRatio(8, 1)
    /\ r.value = DFromRatio(1136, 1)

\* C9: each client group's entries is the number of matching entries of
\* that client, the counts add up to totalEntries, totalClients is the
\* number of groups, and three entries of 8.00 hours at 142.00 of one
\* client make one group with hours 24.00, value 3408.00, entries 3.
C9_EntryCounts ==
    Answer.kind = "report" =>
        /\ \A g \in Elements(Answer.clientBreakdown) :
              g.entries = Cardinality({i \in 1 .. Len(Answer.rows) :
                                          Answer.rows[i].clientId = g.clientId})
        /\ SumFrom(Column(Answer.clientBreakdown, "entries"), 1) = Answer.totalEntries
        /\ Answer.totalClients = Len(Answer.clientBreakdown)
        /\ (/\ Len(Answer.rows) = 3
            /\ \A i \in 1 .. 3 : /\ EightHoursAt142(Answer.rows[i])
                                 /\ Answer.rows[i].clientId = Answer.rows[1].clientId)
              => /\ Len(Answer.clientBreakdown) = 1
                 /\ Answer.clientBreakdown[1].hours = DFromRatio(24, 1)
                 /\ Answer.clientBreakdown[1].value = DFromRatio(3408, 1)
                 /\ Answer.clientBreakdown[1].entries = 3

Shuffled(rows, order) == [i \in 1 .. Len(rows) |-> rows[order[i]]]

SameReport(a, b) ==
    /\ Elements(a.clientBreakdown) = Elements(b.clientBreakdown)
    /\ a.totalHours = b.totalHours
    /\ a.totalValue = b.totalValue
    /\ a.totalEntries = b.totalEntries
    /\ a.totalClients = b.totalClients

SameAnalytics(a, b) ==
    /\ Elements(a.projectStats) = Elements(b.projectStats)
    /\ Elements(a.serviceLocationStats) = Elements(b.serviceLocationStats)
    /\ Elements(a.sectorStats) = Elements(b.sectorStats)
    /\ Elements(a.serviceTypeStats) = Elements(b.serviceTypeStats)
    /\ a.totalHours = b.totalHours
    /\ a.totalValue = b.totalValue
    /\ a.totalEntries = b.totalEntries

\* C10: aggregation does not depend on the order of the entries: on every
\* permutation of the collection aggregated, getReportData and the analytics
\* grouping give the same set of groups, with the same hours, value and
\* entries, and the same grand totals.
C10_OrderIndependent ==
    \A order \in Orders(1 .. Len(Answer.rows)) :
        /\ Answer.kind = "report" =>
              SameReport(ReportOf(backend, Shuffled(Answer.rows, order)), Answer)
        /\ Answer.kind = "analytics" =>
              SameAnalytics(AnalyticsOf(Shuffled(Answer.rows, order)), Answer)

(***************************************************************************)
(* Claims about aggregations with missing master data (SpecAgg)            *)
(***************************************************************************)
\* the names of the groups of a breakdown
GroupIds(stats) == {stats[i].id : i \in 1 .. Len(stats)}

GroupNames(stats) == {stats[i].name : i \in 1 .. Len(stats)}

\* the rows of an answer whose entry points to a row that is not in the table
Orphans(table, column) ==
    {i \in 1 .. Len(Answer.rows) :
        LET e == timeEntries[Answer.rows[i].id]
        IN  e[column] # NoId /\ e[column] \notin DOMAIN table}

\* the client groups of the report: an entry whose client is gone is in no
\* group (MemStorage) or in a group named 'Unknown' (DatabaseStorage)
ReportPolicy ==
    \A i \in 1 .. Len(Answer.rows) :
        LET e == timeEntries[Answer.rows[i].id]
            named == {g \in Elements(Answer.clientBreakdown) : g.clientId = e.clientId}
        IN  IF e.clientId \in DOMAIN clients
            THEN \E g \in named : g.clientName = clients[e.clientId].name
            ELSE IF backend = "mem" THEN named = {}
            ELSE \E g \in named : g.clientName = "Unknown"

\* the dashboard's breakdowns leave out the entries whose consultant or
\* client is gone and keep the others
DashboardPolicy ==
    \A i \in 1 .. Len(Answer.rows) :
        LET e == timeEntries[Answer.rows[i].id]
        IN  /\ e.consultantId \in GroupIds(Answer.consultantStats)
                <=> e.consultantId \in DOMAIN consultants
            /\ e.clientId \in GroupIds(Answer.clientStats)
                <=> e.clientId \in DOMAIN clients

\* the analytics page counts an entry whose project or service type is gone
\* under 'Projeto <id>' and 'T<id>', and counts every entry with a sector
\* it has no description for under 'Setor <id>'
AnalyticsPolicy ==
    /\ \A i \in Orphans(projects, "projectId") :
          LET id == timeEntries[Answer.rows[i].id].projectId
          IN  IF DOMAIN projects # {}
              THEN GroupName("Projeto ", id, Null) \in GroupNames(Answer.projectStats)
              ELSE GroupName("Sem Projeto", 0, Null) \in GroupNames(Answer.projectStats)
    /\ \A i \in Orphans(serviceTypes, "serviceTypeId") :
          GroupName("T", timeEntries[Answer.rows[i].id].serviceTypeId, Null)
              \in GroupNames(Answer.serviceTypeStats)
    /\ \A i \in Orphans(sectors, "sectorId") :
          GroupName("Setor ", timeEntries[Answer.rows[i].id].sectorId, Null)
              \in GroupNames(Answer.sectorStats)
    /\ \A i \in 1 .. Len(Answer.rows) :
          LET e == timeEntries[Answer.rows[i].id]
          IN  /\ e.projectId = NoId
                    => GroupName("Sem Projeto", 0, Null) \in GroupNames(Answer.projectStats)
              /\ e.serviceTypeId = NoId
                    => GroupName("NULO", 0, Null) \in GroupNames(Answer.serviceTypeStats)
              /\ e.sectorId = NoId
                    => GroupName("Sem Setor", 0, Null) \in GroupNames(Answer.sectorStats)

\* C11: getReportData, getDashboardStats and the analytics grouping answer
\* normally whatever clients, consultants, sectors, projects and service
\* types have been deleted, and an entry whose related row is gone is left
\* out of that grouping or counted in its fallback group, by one policy per
\* grouping.
C11_MissingEntitiesTolerated ==
    /\ Answer.kind # "none" => response.status = 200
    /\ Answer.kind = "report" => ReportPolicy
    /\ Answer.kind = "dashboard" => DashboardPolicy
    /\ Answer.kind = "analytics" => AnalyticsPolicy

\* a report over entries of a deleted client and of a client that is there
C11_Witness ==
    /\ Answer.kind = "report"
    /\ Orphans(clients, "clientId") # {}
    /\ Len(Answer.clientBreakdown) > 0

C11_DashboardReached ==
    /\ Answer.kind = "dashboard"
    /\ Orphans(consultants, "consultantId") # {}

C11_AnalyticsReached ==
    /\ Answer.kind = "analytics"
    /\ Orphans(serviceTypes, "serviceTypeId") # {}
    /\ Orphans(projects, "projectId") # {}

(***************************************************************************)
(* Claims about failed writes (SpecStore)                                  *)
(***************************************************************************)
\* the step handles a POST or PUT of /api/time-entries whose body parses
WritesTimeEntry ==
    /\ request'.writes # request.writes
    /\ \/ /\ request'.route = "POST /api/time-entries"
          /\ ParseInsertTimeEntry(request'.body).ok
       \/ /\ request'.route = "PUT /api/time-entries/:id"
          /\ ParsePartialTimeEntry(request'.body).ok
          /\ request'.id \in DOMAIN timeEntries

\* the service the entry written by the step is for: updateData.serviceId ||
\* timeEntry.serviceId
WrittenServiceId ==
    IF request'.route = "POST /api/time-entries" THEN request'.body.serviceId
    ELSE IdOr(request'.body, "serviceId", timeEntries[request'.id].serviceId)

\* C12: a create or an update of a time entry whose service (the one the
\* request names or, failing that, the one the entry has) is not stored is
\* answered with an error and leaves the stored time entries as they were.
C12_MissingServiceFails ==
    [][(WritesTimeEntry /\ WrittenServiceId \notin DOMAIN services) =>
          /\ response'.status >= 400
          /\ timeEntries' = timeEntries]_vars

(***************************************************************************)
(* Claims about unchecked times (SpecUnchecked)                            *)
(***************************************************************************)
TimeKeys == {"startTime", "endTime", "breakStartTime", "breakEndTime"}

\* two colon-separated fields of digits
WellFormedTime(s) ==
    LET parts == Split(s, ":")
    IN  /\ Len(parts) = 2
        /\ \A i \in 1 .. 2 : parts[i] # <<>> /\ IsDigits(parts[i])

\* the request carries a time that is not well formed
MalformedTimeSent ==
    /\ request.route \in {"POST /api/time-entries", "PUT /api/time-entries/:id"}
    /\ \E k \in TimeKeys \cap DOMAIN request.body :
          request.body[k] # Null /\ ~WellFormedTime(request.body[k])

\* C13: a create or update carrying a start, end or break time that is not
\* two colon-separated numeric fields is answered with a validation error
\* (400), and no stored entry has a totalHours or totalValue that is not a
\* number.
C13_MalformedTimeRejected ==
    /\ MalformedTimeSent => response.status = 400
    /\ \A id \in DOMAIN timeEntries :
          /\ timeEntries[id].totalHours # NaN
          /\ timeEntries[id].totalValue # NaN

\* the rows of an answer whose hours and value are numbers
Computable(rows) == SelectSeq(rows, LAMBDA r : r.hours # DNaN /\ r.value # DNaN)

\* the sums of a group are those of its computable rows
GroupOfComputable(g, rows, idField) ==
    LET members == SelectSeq(Computable(rows), LAMBDA r : r[idField] = g[idField])
    IN  /\ g.hours = DSum(Column(members, "hours"))
        /\ g.value = DSum(Column(members, "value"))

\* C14: in getReportData and getDashboardStats an entry whose hours or value
\* is not a number is left out of the sums: the totals and the sums of every
\* group are those of the other entries.
C14_ErrorsStayLocal ==
    /\ Answer.kind = "report" =>
          /\ Answer.totalHours = DSum(Column(Computable(Answer.rows), "hours"))
          /\ Answer.totalValue = DSum(Column(Computable(Answer.rows), "value"))
          /\ \A g \in Elements(Answer.clientBreakdown) :
                GroupOfComputable(g, Answer.rows, "clientId")
    /\ Answer.kind = "dashboard" =>
          /\ Answer.monthlyHours = DSum(Column(Computable(Answer.rows), "hours"))
          /\ Answer.monthlyRevenue = DSum(Column(Computable(Answer.rows), "value"))
          /\ \A g \in Elements(Answer.clientStats) :
                LET members == SelectSeq(Computable(Answer.rows),
                                         LAMBDA r : r.clientId = g.id)
                IN  /\ g.totalHours = DSum(Column(members, "hours"))
                    /\ g.totalValue = DSum(Column(members, "value"))

\* the minutes of a stored time
StoredClock(e, k) == timeToMinutes(e[k])

\* C15: every stored time entry ends after it starts, and a break it has
\* ends after it starts and lies within the entry's start and end.
C15_TimesOrdered ==
    \A id \in DOMAIN timeEntries :
        LET e == timeEntries[id]
        IN  (\A k \in TimeKeys : e[k] # Null => WellFormedTime(e[k])) =>
              /\ StoredClock(e, "endTime") > StoredClock(e, "startTime")
              /\ (Truthy(e.breakStartTime) /\ Truthy(e.breakEndTime)) =>
                    /\ StoredClock(e, "breakEndTime") > StoredClock(e, "breakStartTime")
                    /\ StoredClock(e, "startTime") <= StoredClock(e, "breakStartTime")
                    /\ StoredClock(e, "breakEndTime") <= StoredClock(e, "endTime")

\* C20: the stored totalValue is the stored totalHours times the rate of the
\* entry's service, both as the store keeps them (two decimals in the
\* database), so rounding the hours for storage does not leave a value that
\* differs from hours times rate.
C20_StoredValueIsStoredHoursTimesRate ==
    \A id \in DOMAIN timeEntries :
        LET e == timeEntries[id]
            product == hoursTimesRate(e.totalHours, services[e.serviceId].hourlyRate)
        IN  (e.serviceId \in DOMAIN services /\ e.totalHours # NaN) =>
               e.totalValue = IF backend = "db" THEN StoredValue(product) ELSE product

(***************************************************************************)
(* Claims about clients, consultants and services (SpecMaster)             *)
(***************************************************************************)
CodesUnique(rows) ==
    \A i, j \in DOMAIN rows : rows[i].code = rows[j].code => i = j

\* the step answers a POST of a client or consultant whose code a stored row has
PostsExistingCode(table) ==
    /\ request'.writes # request.writes
    /\ request'.route = PostCodedRoute(table)
    /\ Has(request'.body, "code")
    /\ ByCode(CodedRows(table), request'.body.code) # {}

\* C16: after every POST and PUT on clients and consultants, however the
\* requests interleave, no two clients share a code and no two consultants
\* share a code, and a POST whose code is already stored is answered 400
\* and leaves the store as it was.
C16_CodesUnique ==
    [][/\ CodesUnique(clients')
       /\ CodesUnique(consultants')
       /\ \A table \in CodedTables :
             PostsExistingCode(table) =>
                /\ response'.status = 400
                /\ UNCHANGED <<clients, consultants>>]_vars

\* the whole string is a number: an optional sign, digits, at most one point
IsNumeral(s) ==
    LET text == IF s # <<>> /\ Head(s) = "-" THEN Tail(s) ELSE s
        wholeLen == DigitsLen(text, 1)
        point == wholeLen < Len(text) /\ text[wholeLen + 1] = "."
        fracLen == IF point THEN DigitsLen(text, wholeLen + 2) ELSE 0
    IN  /\ wholeLen + fracLen > 0
        /\ wholeLen + (IF point THEN 1 ELSE 0) + fracLen = Len(text)

\* the step answers a POST or PUT of a service whose hourlyRate is negative
\* or no number
SendsBadRate ==
    /\ request'.writes # request.writes
    /\ request'.route \in {"POST /api/services", "PUT /api/services/:id"}
    /\ Has(request'.body, "hourlyRate")
    /\ \/ ~IsNumeral(request'.body.hourlyRate)
       \/ ParseFloat(request'.body.hourlyRate) < 0

\* C17: after every create and update of a service through the API each
\* stored service belongs to a stored client and its hourly rate is a
\* number >= 0, and a request whose hourlyRate is negative or not a number
\* is answered 400 and changes nothing.
C17_ServicesValid ==
    [][/\ \A i \in DOMAIN services' :
             /\ services'[i].clientId \in DOMAIN clients'
             /\ IsNumeral(services'[i].hourlyRate)
             /\ ParseFloat(services'[i].hourlyRate) >= 0
       /\ SendsBadRate => response'.status = 400 /\ services' = services]_vars

(***************************************************************************)
(* Claims about the report's filters and order (SpecAgg)                   *)
(***************************************************************************)
\* a "YYYY-MM-DD" date as the number YYYYMMDD
DateNumber(date) ==
    LET parts == Split(date, "-")
    IN  (DigitsValue(parts[1], 0) * 100 + DigitsValue(parts[2], 0)) * 100
          + DigitsValue(parts[3], 0)

\* the stored entries a report with the query of the request is about
Selected ==
    {id \in DOMAIN timeEntries :
        LET e == timeEntries[id]
            q == request.body
        IN  /\ q.startDate = Null \/ DateNumber(q.startDate) <= DateNumber(e.date)
            /\ q.endDate = Null \/ DateNumber(e.date) <= DateNumber(q.endDate)
            /\ q.clientId = NoId \/ e.clientId = q.clientId
            /\ q.consultantId = NoId \/ e.consultantId = q.consultantId}

C19_BreakdownByValue ==
    Answer.kind = "report" =>
        \A i, j \in 1 .. Len(Answer.clientBreakdown) :
            i < j => ~DLess(Answer.clientBreakdown[i].value, Answer.clientBreakdown[j].value)

\* a report whose rows come with the client of the smaller value first
C19_Witness ==
    /\ Answer.kind = "report"
    /\ Len(Answer.clientBreakdown) >= 2
    /\ DLess(Answer.clientBreakdown[2].value, Answer.clientBreakdown[1].value)
    /\ Answer.rows[1].clientId = Answer.clientBreakdown[Len(Answer.clientBreakdown)].clientId


(***************************************************************************)
(* Claims about the dashboard (SpecAgg)                                    *)
(***************************************************************************)
\* the stored entries dated in the month the request asks for
OfMonth ==
    {id \in DOMAIN timeEntries :
        DateNumber(timeEntries[id].date) \div 100
          = request.body.year * 100 + request.body.month}

\* C21: getDashboardStats(month, year) is about exactly the entries dated in
\* that month: monthlyHours and monthlyRevenue are the sums of their
\* totalHours and totalValue, and the totalHours (totalValue) of
\* consultantStats, and of clientStats, add up to monthlyHours
\* (monthlyRevenue).
C21_DashboardSumsTheMonth ==
    Answer.kind = "dashboard" =>
        /\ {Answer.rows[i].id : i \in 1 .. Len(Answer.rows)} = OfMonth
        /\ Len(Answer.rows) = Cardinality(OfMonth)
        /\ Answer.monthlyHours = ExactSum(Column(Answer.rows, "hours"))
        /\ Answer.monthlyRevenue = ExactSum(Column(Answer.rows, "value"))
        /\ ExactSum(Column(Answer.consultantStats, "totalHours")) = Answer.monthlyHours
        /\ ExactSum(Column(Answer.consultantStats, "totalValue")) = Answer.monthlyRevenue
        /\ ExactSum(Column(Answer.clientStats, "totalHours")) = Answer.monthlyHours
        /\ ExactSum(Column(Answer.clientStats, "totalValue")) = Answer.monthlyRevenue


(***************************************************************************)
(* Authentication                                                          *)
(*                                                                         *)
(* The password column holds text.  A text is the sequence of its pieces;  *)
(* the passwords drawn here have one piece, and "" has none.  What         *)
(* bcrypt.hash returns is the text "$2b$10$", the salt, and the digest of  *)
(* the password under that salt; a digest is written as the password it is *)
(* the digest of, so that two digests are equal exactly when the passwords *)
(* are (no collision among the passwords drawn, none over 72 bytes).       *)
(***************************************************************************)
BcryptPrefix == "$2b$10$"

\* the salts bcrypt.hash(_, 10) may draw
Salts == {"saltA", "saltB"}

\* bcrypt.hash(data, 10) when it draws this salt
BcryptHash(data, salt) == <<BcryptPrefix, salt>> \o data

\* bcrypt.compare(data, encrypted): false for a text that is no bcrypt hash
BcryptCompare(data, encrypted) ==
    /\ Len(encrypted) >= 2
    /\ encrypted[1] = BcryptPrefix
    /\ SubSeq(encrypted, 3, Len(encrypted)) = data

\* the passwords of addSampleData
SamplePasswords == <<(<<"senha123">>), (<<"senha123">>), (<<"C@sull45">>)>>

\* MemStorage.addSampleData: the consultants with their password column
MemConsultants ==
    [i \in DOMAIN SampleConsultants |->
        Spread(SampleConsultants[i], [password |-> SamplePasswords[i]])]

\* the consultants of the database, entered through createConsultant
DbConsultants ==
    [i \in DOMAIN SampleConsultants |->
        Spread(SampleConsultants[i], [password |-> BcryptHash(SamplePasswords[i], "saltA")])]

AuthInit ==
    /\ \E b \in {"mem", "db"} :
          StoreInitWith(b, IF b = "mem" THEN MemConsultants ELSE DbConsultants)
    /\ StoreIdle

\* insertConsultantSchema, partial for a PUT: code, name and password are
\* strings, none with a minimum length
ParseInsertConsultant(body, partial) ==
    IF partial \/ {"code", "name", "password"} \subseteq DOMAIN body
    THEN [ok |-> TRUE,
          data |-> [k \in DOMAIN body \cap {"code", "name", "password"} |-> body[k]]]
    ELSE [ok |-> FALSE, data |-> NoRows]

\* loginSchema: code and password of one character at least
ParseLogin(body) ==
    /\ {"code", "password"} \subseteq DOMAIN body
    /\ body.code # ""
    /\ body.password # <<>>

\* MemStorage.createConsultant keeps the password as given;
\* DatabaseStorage.createConsultant stores bcrypt.hash(password, 10)
CreateConsultant(b, rows, nextId, ins, salt) ==
    CreateCoded(b, rows, nextId,
        IF b = "db" THEN [ins EXCEPT !.password = BcryptHash(@, salt)] ELSE ins)

\* MemStorage.updateConsultant spreads the update over the row;
\* DatabaseStorage.updateConsultant hashes the password if (consultantData.password)
UpdateConsultant(b, rows, nextId, id, updateData, salt) ==
    UpdateCoded(b, rows, nextId, id,
        IF b = "db" /\ Has(updateData, "password") /\ Truthy(updateData.password)
        THEN [updateData EXCEPT !.password = BcryptHash(@, salt)]
        ELSE updateData)

\* the least id of a set of ids: the row a Map's values() or a SELECT gives first
FirstId(ids) == CHOOSE i \in ids : \A j \in ids : i <= j

\* authenticateConsultant: the id of the consultant returned, NoId for null
AuthenticateConsultant(rows, loginData) ==
    LET found == ByCode(rows, loginData.code)
    IN  IF found = {} THEN NoId
        ELSE IF BcryptCompare(loginData.password, rows[FirstId(found)].password)
        THEN FirstId(found)
        ELSE NoId

\* a consultant as JSON: the row with its id
ConsultantJson(rows, id) == Spread(rows[id], [id |-> id])

Json(rows) == [kind |-> "json", rows |-> rows]

\* an answer that carries no consultant
Refused(status, rows, nextId) ==
    [status |-> status, data |-> Json(<<>>), out |-> Outcome("none", rows, nextId)]

\* res.status(status).json(consultant) after a storage call, or the 404 / 500
ConsultantAnswer(okStatus, id, out) ==
    CASE out.result = "ok" ->
            [status |-> okStatus, data |-> Json(<<ConsultantJson(out.entries, id)>>), out |-> out]
      [] out.result = "undefined" -> [status |-> 404, data |-> Json(<<>>), out |-> out]
      [] OTHER -> [status |-> 500, data |-> Json(<<>>), out |-> out]

\* the handler of POST /api/consultants
PostConsultantResult(b, rows, nextId, body, salt) ==
    IF ~ParseInsertConsultant(body, FALSE).ok THEN Refused(400, rows, nextId)
    ELSE IF ByCode(rows, body.code) # {} THEN Refused(400, rows, nextId)
    ELSE ConsultantAnswer(201, nextId,
             CreateConsultant(b, rows, nextId, ParseInsertConsultant(body, FALSE).data, salt))

\* the handler of PUT /api/consultants/:id
PutConsultantResult(b, rows, nextId, id, body, salt) ==
    ConsultantAnswer(200, id,
        UpdateConsultant(b, rows, nextId, id, ParseInsertConsultant(body, TRUE).data, salt))

\* the handler of POST /api/login: the consultant without its password, or 401
LoginResult(rows, body) ==
    IF ~ParseLogin(body) THEN [status |-> 400, data |-> Json(<<>>)]
    ELSE IF AuthenticateConsultant(rows, body) = NoId
    THEN [status |-> 401, data |-> Json(<<>>)]
    ELSE [status |-> 200,
          data |-> Json(<<Without(ConsultantJson(rows, AuthenticateConsultant(rows, body)),
                                  {"password"})>>)]

\* the handler of GET /api/consultants: res.json(await storage.getConsultants())
GetConsultantsResult(rows, order) ==
    [status |-> 200,
     data |-> Json([i \in 1 .. Len(order) |-> ConsultantJson(rows, order[i])])]

NewPassword == <<"nova456">>

ConsultantPostBodies ==
    { [code |-> "CON900", name |-> "Novo", password |-> NewPassword],
      [code |-> "LEON", name |-> "Outro", password |-> NewPassword],
      [code |-> "CON901", name |-> "Sem senha"] }

ConsultantPutBodies ==
    { [password |-> NewPassword],
      [password |-> <<>>],
      [name |-> "Renomeado"] }

LoginCodes == {"LEON", "CON900", "NADA"}
LoginPasswords == {<<"C@sull45">>, NewPassword, <<>>}

ConsultantIds == {3, 9}

AuthRoutes ==
    {"POST /api/login", "GET /api/consultants", "POST /api/consultants",
     "PUT /api/consultants/:id"}

\* a write to consultants answered: the table and its counter as the storage
\* call left them
ConsultantHandled(route, id, body, r) ==
    /\ request.writes < MaxWrites
    /\ request' = [writes |-> request.writes + 1, route |-> route, id |-> id, body |-> body]
    /\ response' = [status |-> r.status, data |-> r.data]
    /\ consultants' = r.out.entries
    /\ currentConsultantId' = r.out.nextId
    /\ UNCHANGED <<calcVars, browserVars, backend, clients, services, sectors, serviceTypes, projects,
                   currentClientId, currentServiceId, timeEntries, currentTimeEntryId,
                   inflight>>

\* a request that writes nothing answered; it is taken from the state a
\* write left, as what it answers depends on the store alone
ReadAnswered(route, body, r) ==
    /\ request.route \notin {"POST /api/login", "GET /api/consultants"}
    /\ request' = [request EXCEPT !.route = route, !.id = NoId, !.body = body]
    /\ response' = r
    /\ UNCHANGED <<calcVars, browserVars, storeVars, inflight>>

\* POST /api/consultants
PostConsultant ==
    \E body \in ConsultantPostBodies, salt \in Salts :
        ConsultantHandled("POST /api/consultants", NoId, body,
            PostConsultantResult(backend, consultants, currentConsultantId, body, salt))

\* PUT /api/consultants/:id
PutConsultant ==
    \E id \in ConsultantIds, body \in ConsultantPutBodies, salt \in Salts :
        ConsultantHandled("PUT /api/consultants/:id", id, body,
            PutConsultantResult(backend, consultants, currentConsultantId, id, body, salt))

\* POST /api/login
PostLogin ==
    \E code \in LoginCodes, password \in LoginPasswords :
        ReadAnswered("POST /api/login", [code |-> code, password |-> password],
            LoginResult(consultants, [code |-> code, password |-> password]))

\* GET /api/consultants
GetConsultants ==
    \E order \in RowOrders(backend, DOMAIN consultants) :
        ReadAnswered("GET /api/consultants", NoRows,
            GetConsultantsResult(consultants, order))

AuthNext ==
    \/ PostConsultant
    \/ PutConsultant
    \/ PostLogin
    \/ GetConsultants

SpecAuth == AuthInit /\ [][AuthNext]_vars


(***************************************************************************)
(* Claims about authentication (SpecAuth)                                  *)
(***************************************************************************)
\* a text bcrypt.hash has returned
IsBcryptHash(text) == Len(text) >= 2 /\ text[1] = BcryptPrefix

\* the password last set for a row: every write of the column stores the
\* password given or its hash, so it is the text stored or what the stored
\* hash is the digest of
PasswordSet(row) ==
    IF IsBcryptHash(row.password) THEN SubSeq(row.password, 3, Len(row.password))
    ELSE row.password

\* the consultants a login with this body is to return
Entitled(body) ==
    {id \in ByCode(consultants, body.code) : PasswordSet(consultants[id]) = body.password}

\* C22: every stored password is a bcrypt hash, and a login with a code and
\* a password is answered 200 with the consultant exactly when a consultant
\* with that code exists and the password is the one last set for it, and
\* 401 otherwise.
C22_LoginRoundTrips ==
    /\ \A id \in DOMAIN consultants : IsBcryptHash(consultants[id].password)
    /\ (request.route = "POST /api/login" /\ ParseLogin(request.body)) =>
          /\ response.status = (IF Entitled(request.body) # {} THEN 200 ELSE 401)
          /\ response.status = 200 =>
                \E id \in Entitled(request.body) : Answer.rows[1].id = id


(***************************************************************************)
(* The time-entry page: an entry loaded for editing                        *)
(*                                                                         *)
(* page.clientId and page.serviceId are the form's values, fetches the     *)
(* requests for /api/services/by-client/:id that have not been answered,   *)
(* timers the setTimeout callbacks that have not run.  A handler, a        *)
(* promise callback or a timer callback runs to its end, and the effects   *)
(* of the render it causes run with it.  The fetches are answered: the     *)
(* catch branches are not taken.                                           *)
(***************************************************************************)
\* GET /api/services/by-client/:clientId, as the ids of the services
ServicesByClient(clientId) == {i \in DOMAIN services : services[i].clientId = clientId}

\* useEffect(..., [watchedClientId, form]): it runs when the client changed
ClientEffect(before, p) ==
    IF p.clientId = before.clientId THEN p
    ELSE IF p.clientId # NoId
    THEN [p EXCEPT !.fetches = @ \cup {[by |-> "effect", clientId |-> p.clientId,
                                        serviceId |-> NoId]}]
    ELSE [p EXCEPT !.clientServices = {}, !.serviceId = NoId, !.selectedService = NoId]

\* useEffect(..., [watchedServiceId, clientServices]): it runs when one changed
ServiceEffect(before, p) ==
    IF p.serviceId = before.serviceId /\ p.clientServices = before.clientServices THEN p
    ELSE [p EXCEPT !.selectedService =
             IF p.serviceId # NoId /\ p.serviceId \in p.clientServices
             THEN p.serviceId ELSE NoId]

\* the render after the state before became p, with its effects
Rendered(before, p) == ServiceEffect(before, ClientEffect(before, p))

\* the page becomes p and is rendered; the server is not involved
PageBecomes(p) ==
    /\ page' = Rendered(page, p)
    /\ UNCHANGED <<calcVars, storeVars, httpVars, router>>

\* the user picks a client in the form, while no entry is being edited
SelectClient(clientId) ==
    /\ page.editingEntry = NoEntry
    /\ page.clientId # clientId
    /\ PageBecomes([page EXCEPT !.clientId = clientId])

\* handleEdit(entry): form.reset with serviceId 0, and the fetch of the
\* client's services
HandleEdit(id) ==
    /\ page.editingEntry = NoEntry
    /\ LET entry == timeEntries[id]
       IN  PageBecomes(
             [page EXCEPT
                !.editingEntry = [id |-> id, clientId |-> entry.clientId,
                                  serviceId |-> entry.serviceId],
                !.clientId = entry.clientId,
                !.serviceId = NoId,
                !.fetches = IF entry.clientId # NoId
                            THEN @ \cup {[by |-> "handleEdit", clientId |-> entry.clientId,
                                          serviceId |-> entry.serviceId]}
                            ELSE @])

\* a fetch of services is answered: handleEdit's sets the list and starts its
\* 100 ms timer, the effect's sets the list and resets the service
FetchAnswered(f) ==
    /\ f \in page.fetches
    /\ PageBecomes(
         IF f.by = "handleEdit"
         THEN [page EXCEPT !.fetches = @ \ {f},
                           !.clientServices = ServicesByClient(f.clientId),
                           !.timers = @ \cup {[serviceId |-> f.serviceId,
                                               services |-> ServicesByClient(f.clientId)]}]
         ELSE [page EXCEPT !.fetches = @ \ {f},
                           !.clientServices = ServicesByClient(f.clientId),
                           !.serviceId = NoId,
                           !.selectedService = NoId])

\* the timer of handleEdit runs: form.setValue('serviceId', entry.serviceId)
TimerFired(t) ==
    /\ t \in page.timers
    /\ PageBecomes(
         [page EXCEPT !.timers = @ \ {t},
                      !.serviceId = t.serviceId,
                      !.selectedService = IF t.serviceId \in t.services
                                          THEN t.serviceId ELSE @])

PageFetches ==
    [by : {"handleEdit", "effect"}, clientId : DOMAIN SampleClients,
     serviceId : {NoId} \cup DOMAIN SampleServices]

PageTimers == [serviceId : DOMAIN SampleServices, services : SUBSET DOMAIN SampleServices]

\* a fetch or a timer that is under way comes to its end
Completes ==
    \/ \E f \in PageFetches : FetchAnswered(f)
    \/ \E t \in PageTimers : TimerFired(t)

EditNext ==
    \/ PostAggEntry
    \/ \E clientId \in {NoId} \cup DOMAIN SampleClients : SelectClient(clientId)
    \/ \E id \in DOMAIN timeEntries : HandleEdit(id)
    \/ Completes

\* the network answers every request and every timer runs
SpecEdit == ServerInit /\ [][EditNext]_vars /\ WF_vars(Completes)

(***************************************************************************)
(* Claims about the time-entry page (SpecEdit)                             *)
(***************************************************************************)
\* C23: once an entry is loaded for editing, the form's serviceId comes to
\* be the entry's serviceId and stays so, whatever the order in which the
\* two fetches of the services and the timer come to their end.
C23_EditLoadsService ==
    <>[](page.editingEntry # NoEntry => page.serviceId = page.editingEntry.serviceId)


(***************************************************************************)
(* The four computations of an entry's hours                               *)
(***************************************************************************)
\* parseInt: the value of the leading digits, NaN when there is none
ParseInt(s) ==
    IF DigitsLen(s, 1) = 0 THEN NaN
    ELSE DigitsValue(SubSeq(s, 1, DigitsLen(s, 1)), 0)

\* parseInt(parts[0]) * 60 + parseInt(parts[1])
ParsedMinutes(parts) ==
    Num({ParseInt(parts[1]), ParseInt(parts[2])},
        ParseInt(parts[1]) * 60 + ParseInt(parts[2]))

\* a > b of two numbers: false when one is NaN
Greater(a, b) == NaN \notin {a, b} /\ a > b

\* the minutes the form's effect takes off for the break
previewBreak(breakStartTime, breakEndTime) ==
    IF Truthy(breakStartTime) /\ Truthy(breakEndTime)
       /\ Len(Split(breakStartTime, ":")) = 2 /\ Len(Split(breakEndTime, ":")) = 2
       /\ Greater(ParsedMinutes(Split(breakEndTime, ":")),
                  ParsedMinutes(Split(breakStartTime, ":")))
    THEN ParsedMinutes(Split(breakEndTime, ":")) - ParsedMinutes(Split(breakStartTime, ":"))
    ELSE 0

\* the effect of the time-entry form that sets calculatedHours, a service
\* being selected; calculatedHours is 0 when the page is mounted
previewHours(startTime, endTime, breakStartTime, breakEndTime) ==
    IF ~(Truthy(startTime) /\ Truthy(endTime)) THEN 0
    ELSE IF Len(Split(startTime, ":")) # 2 \/ Len(Split(endTime, ":")) # 2 THEN 0
    ELSE IF Greater(ParsedMinutes(Split(endTime, ":")), ParsedMinutes(Split(startTime, ":")))
    THEN Max(0, ((ParsedMinutes(Split(endTime, ":")) - ParsedMinutes(Split(startTime, ":"))
                  - previewBreak(breakStartTime, breakEndTime)) * HoursUnit)
                \div MinutesPerHour)
    ELSE 0

\* new Date(`2000-01-01T${time}`).getTime(), in minutes after midnight: an
\* Invalid Date has the time NaN
DateMinutes(time) ==
    IF Len(time) = 5 /\ time[3] = ":" /\ IsDigits(SubSeq(time, 1, 2))
       /\ IsDigits(SubSeq(time, 4, 5))
       /\ DigitsValue(SubSeq(time, 4, 5), 0) <= 59
       /\ DigitsValue(SubSeq(time, 1, 2), 0) * 60 + DigitsValue(SubSeq(time, 4, 5), 0) <= 24 * 60
    THEN DigitsValue(SubSeq(time, 1, 2), 0) * 60 + DigitsValue(SubSeq(time, 4, 5), 0)
    ELSE NaN

\* calculateEntryHours of routes.ts, in 1/HoursUnit hour
calculateEntryHours(startTime, endTime, breakStartTime, breakEndTime) ==
    LET start == DateMinutes(startTime)
        end == DateMinutes(endTime)
        hours == Num({start, end}, ((end - start) * HoursUnit) \div MinutesPerHour)
    IN  IF Truthy(breakStartTime) /\ Truthy(breakEndTime)
        THEN LET breakStart == DateMinutes(breakStartTime)
                 breakEnd == DateMinutes(breakEndTime)
             IN  Num({hours, breakStart, breakEnd},
                     hours - ((breakEnd - breakStart) * HoursUnit) \div MinutesPerHour)
        ELSE hours

\* calculateEntryValue of routes.ts: parseFloat(rate) || 0
calculateEntryValue(hours, hourlyRate) ==
    IF ParseFloat(hourlyRate) = NaN THEN Num({hours}, 0)
    ELSE hoursTimesRate(hours, hourlyRate)

\* what each of the four makes of the drawn times
PreviewOf(in) ==
    previewHours(ClockStr(in.start), ClockStr(in.end), BreakStartStr(in), BreakEndStr(in))
MemStoredOf(in) ==
    calculateHoursAndValue(ClockStr(in.start), ClockStr(in.end), DecimalStr(in.rate),
                           BreakStartStr(in), BreakEndStr(in)).hours
DbStoredOf(in) ==
    StoredHours(calculateHours(ClockStr(in.start), ClockStr(in.end),
                               BreakStartStr(in), BreakEndStr(in)))
InvoiceOf(in) ==
    calculateEntryHours(ClockStr(in.start), ClockStr(in.end),
                        BreakStartStr(in), BreakEndStr(in))

HoursCalculated(by, hours, value) ==
    /\ calcOut.by = "none"
    /\ calcOut' = [by |-> by, hours |-> hours, value |-> value]
    /\ UNCHANGED <<calcIn, storeVars, httpVars, browserVars>>

FormCalculate ==
    HoursCalculated("form", PreviewOf(calcIn),
               hoursTimesRate(PreviewOf(calcIn), DecimalStr(calcIn.rate)))

InvoiceCalculate ==
    HoursCalculated("invoice", InvoiceOf(calcIn),
               calculateEntryValue(InvoiceOf(calcIn), DecimalStr(calcIn.rate)))

DbStore ==
    HoursCalculated("stored", DbStoredOf(calcIn),
               StoredValue(hoursTimesRate(
                   calculateHours(ClockStr(calcIn.start), ClockStr(calcIn.end),
                                  BreakStartStr(calcIn), BreakEndStr(calcIn)),
                   DecimalStr(calcIn.rate))))

DurationNext == FormCalculate \/ MemCalculate \/ DbStore \/ InvoiceCalculate

SpecDuration == CalcInit /\ [][DurationNext]_vars

(***************************************************************************)
(* Claims about the four computations (SpecDuration)                       *)
(***************************************************************************)
\* C24: for every start, end and optional break in HH:MM form, the hours the
\* form previews, the hours MemStorage stores, the hours DatabaseStorage
\* stores and the hours calculateEntryHours recomputes are equal.
C24_DurationsAgree ==
    calcOut.by # "none" =>
        /\ calcOut.hours = PreviewOf(calcIn)
        /\ calcOut.hours = MemStoredOf(calcIn)
        /\ calcOut.hours = DbStoredOf(calcIn)
        /\ calcOut.hours = InvoiceOf(calcIn)


(***************************************************************************)
(* The invoice                                                             *)
(***************************************************************************)
\* getTimeEntriesByDateRange: MemStorage leaves out an entry whose
\* consultant, client or service is gone, the database joins them in
Detailed(b, id) ==
    LET e == timeEntries[id]
    IN  b = "mem" => /\ e.consultantId \in DOMAIN consultants
                     /\ e.clientId \in DOMAIN clients
                     /\ e.serviceId \in DOMAIN services

TimeEntriesByDateRange(b, startDate, endDate) ==
    {id \in DOMAIN timeEntries :
        /\ Detailed(b, id)
        /\ StrLeq(startDate, timeEntries[id].date)
        /\ StrLeq(timeEntries[id].date, endDate)}

\* allEntries.filter(entry => entryIds.includes(entry.id) && entry.client.id === clientId)
SelectedEntries(b, body) ==
    {id \in TimeEntriesByDateRange(b, body.startDate, body.endDate) :
        id \in body.entryIds /\ timeEntries[id].clientId = body.clientId}

\* entry.client.id and entry.service.hourlyRate of a row the join left empty
JoinedRowMissing(body) ==
    \E id \in TimeEntriesByDateRange("db", body.startDate, body.endDate) :
        \/ timeEntries[id].clientId \notin DOMAIN clients
        \/ id \in body.entryIds /\ timeEntries[id].serviceId \notin DOMAIN services

InvoiceHours(id) ==
    calculateEntryHours(timeEntries[id].startTime, timeEntries[id].endTime,
                        timeEntries[id].breakStartTime, timeEntries[id].breakEndTime)

InvoiceValue(id) ==
    calculateEntryValue(InvoiceHours(id), services[timeEntries[id].serviceId].hourlyRate)

\* selectedEntries.reduce((sum, entry) => sum + f(entry), 0), without its rounding
Reduce(ids, f(_)) ==
    LET ns == [i \in 1 .. Cardinality(ids) |-> f(Ascending(ids)[i])]
    IN  Num(Elements(ns), SumFrom(ns, 1))

Refusal(status) == [status |-> status, data |-> NoData]

\* POST /api/billing/generate-pdf
GeneratePdfResult(b, body) ==
    IF body.clientId = NoId \/ ~Truthy(body.startDate) \/ ~Truthy(body.endDate)
       \/ body.entryIds = {}
    THEN Refusal(400)
    ELSE IF body.clientId \notin DOMAIN clients THEN Refusal(404)
    ELSE IF b = "db" /\ JoinedRowMissing(body) THEN Refusal(500)
    ELSE IF SelectedEntries(b, body) = {} THEN Refusal(400)
    ELSE [status |-> 200,
          data |-> [kind |-> "invoice",
                    rows |-> Ascending(SelectedEntries(b, body)),
                    totalHours |-> Reduce(SelectedEntries(b, body), InvoiceHours),
                    totalValue |-> Reduce(SelectedEntries(b, body), InvoiceValue)]]

December == [startDate |-> DateStr(2024, 12, 1), endDate |-> DateStr(2024, 12, 31)]

InvoiceBodies ==
    { Spread(December, [clientId |-> c, entryIds |-> ids]) :
        c \in {1, 2, 3, 9}, ids \in {{}, {1}, {1, 2, 3}, {1, 4}, {2, 4, 5}} }

\* a request that writes nothing is answered r
ReadHandled(route, body, r) ==
    /\ response.data = NoData
    /\ request' = [request EXCEPT !.route = route, !.id = NoId, !.body = body]
    /\ response' = r
    /\ UNCHANGED <<calcVars, browserVars, storeVars, inflight>>

PostGeneratePdf ==
    \E body \in InvoiceBodies :
        ReadHandled("POST /api/billing/generate-pdf", body, GeneratePdfResult(backend, body))

\* PUT /api/services/:id as far as the storage
PutServiceOutcome(b, rows, nextId, id, body) ==
    IF ParseInsertService(body, TRUE).ok
    THEN UpdateService(b, rows, nextId, id, ParseInsertService(body, TRUE).data)
    ELSE Outcome("invalid", rows, nextId)

ServiceHandled(route, id, body, out) ==
    /\ Atomic(route, id, body,
              CASE out.result = "ok" -> 200
                [] out.result = "invalid" -> 400
                [] out.result = "undefined" -> 404
                [] OTHER -> 500)
    /\ services' = out.entries
    /\ currentServiceId' = out.nextId
    /\ UNCHANGED <<calcVars, browserVars, backend, clients, consultants, sectors, serviceTypes,
                   projects, currentClientId, currentConsultantId, timeEntries,
                   currentTimeEntryId>>

NewRates == {<<"2", "0", "0">>, <<"9", "9", ".", "5">>}

\* PUT /api/services/:id with a new hourly rate
PutServiceRate ==
    \E id \in {1, 2, 3}, rate \in NewRates :
        ServiceHandled("PUT /api/services/:id", id, [hourlyRate |-> rate],
                       PutServiceOutcome(backend, services, currentServiceId, id,
                                         [hourlyRate |-> rate]))

InvoiceNext ==
    \/ PostAggEntry
    \/ PutServiceRate
    \/ PostGeneratePdf

SpecInvoice == ServerInit /\ [][InvoiceNext]_vars

(***************************************************************************)
(* Claims about the invoice (SpecInvoice)                                  *)
(***************************************************************************)
StoredTotalHours(id) == timeEntries[id].totalHours
StoredTotalValue(id) == timeEntries[id].totalValue

\* C25: the invoice of POST /api/billing/generate-pdf shows, with its two
\* decimals, a totalHours and a totalValue that are the sums of the stored
\* totalHours and totalValue of the selected entries, also after a
\* service's hourly rate was updated.
C25_InvoiceSumsStoredTotals ==
    Answer.kind = "invoice" =>
        /\ StoredHours(Answer.totalHours)
             = StoredHours(Reduce(Elements(Answer.rows), StoredTotalHours))
        /\ StoredValue(Answer.totalValue)
             = StoredValue(Reduce(Elements(Answer.rows), StoredTotalValue))


(***************************************************************************)
(* GET /api/reports/pdf on the database, await by await                    *)
(***************************************************************************)
PdfRoute == "GET /api/reports/pdf"

\* an entry of pdfData.entries
PdfRow(id) == [id |-> id, hours |-> ParseTotalHours(timeEntries[id])]

\* timeEntries.filter(...) of the handler on getTimeEntriesByDateRange
PdfEntries(b, filters) ==
    {id \in TimeEntriesByDateRange(b,
                IF Truthy(filters.startDate) THEN filters.startDate ELSE DateStr(1900, 1, 1),
                IF Truthy(filters.endDate) THEN filters.endDate ELSE DateStr(2100, 12, 31)) :
        /\ filters.clientId # NoId => timeEntries[id].clientId = filters.clientId
        /\ filters.consultantId # NoId => timeEntries[id].consultantId = filters.consultantId}

\* entry.client.name, entry.consultant.name, entry.service.description of a
\* row the join left empty
PdfRowMissing(ids) ==
    \E id \in ids :
        \/ timeEntries[id].clientId \notin DOMAIN clients
        \/ timeEntries[id].consultantId \notin DOMAIN consultants
        \/ timeEntries[id].serviceId \notin DOMAIN services

PdfFilters ==
    { NoFilters,
      [NoFilters EXCEPT !.startDate = DateStr(2024, 12, 2), !.clientId = 2] }

\* const reportData = await storage.getReportData(filters)
PdfGetReportData(c) ==
    /\ inflight[c].pc = "idle"
    /\ \E filters \in PdfFilters :
        \E order \in RowOrders(backend,
                        {id \in DOMAIN timeEntries : Matches(timeEntries[id], filters)}) :
            inflight' = [inflight EXCEPT ![c] =
                [Idle EXCEPT !.pc = "getTimeEntriesByDateRange",
                             !.body = filters,
                             !.values = ReportOf(backend,
                                 [i \in 1 .. Len(order) |-> ReportRow(order[i])])]]
    /\ UNCHANGED <<calcVars, browserVars, storeVars, request, response>>

PdfAnswered(c, r) ==
    /\ request' = [request EXCEPT !.route = PdfRoute, !.id = NoId, !.body = inflight[c].body]
    /\ response' = r
    /\ inflight' = [inflight EXCEPT ![c] = [Idle EXCEPT !.pc = "done"]]
    /\ UNCHANGED <<calcVars, browserVars, storeVars>>

\* const timeEntries = await storage.getTimeEntriesByDateRange(...), and the
\* rest of the handler
PdfGetTimeEntries(c) ==
    /\ inflight[c].pc = "getTimeEntriesByDateRange"
    /\ \E order \in RowOrders(backend, PdfEntries(backend, inflight[c].body)) :
        PdfAnswered(c,
            IF backend = "db" /\ PdfRowMissing(PdfEntries(backend, inflight[c].body))
            THEN Refusal(500)
            ELSE [status |-> 200,
                  data |-> [kind |-> "pdf",
                            summary |-> inflight[c].values,
                            rows |-> [i \in 1 .. Len(order) |-> PdfRow(order[i])]]])

\* PUT /api/time-entries/:id with a later end
PutLaterEnd ==
    \E id \in ConcIds :
        PutTimeEntryWith(id, [endTime |-> T(18, 0)])

PdfNext ==
    \/ PostAggEntry
    \/ PutLaterEnd
    \/ DeleteTimeEntry
    \/ \E c \in Connections : PdfGetReportData(c)
    \/ \E c \in Connections : PdfGetTimeEntries(c)

SpecPdf == ConcInit /\ [][PdfNext]_vars

(***************************************************************************)
(* Claims about the PDF report (SpecPdf)                                   *)
(***************************************************************************)
\* C26: the summary and the list of GET /api/reports/pdf are about the same
\* entries: summary.totalEntries is the number of listed entries and
\* summary.totalHours, with its two decimals, the sum of their hours, also
\* when time entries are written between the two reads of the request.
C26_PdfConsistent ==
    Answer.kind = "pdf" =>
        /\ Answer.summary.totalEntries = Len(Answer.rows)
        /\ ToFixed2(Answer.summary.totalHours) = ToFixed2(ExactSum(Column(Answer.rows, "hours")))


(***************************************************************************)
(* Claims about updateService (SpecMaster)                                 *)
(***************************************************************************)
\* the fields updateService was given by the PUT that was just answered 200
ServiceUpdated ==
    /\ request'.writes # request.writes
    /\ request'.route = "PUT /api/services/:id"
    /\ response'.status = 200

SuppliedFields == ParseInsertService(request'.body, TRUE).data

\* the supplied fields are stored, the others and the other services are as
\* they were
UpdateApplied ==
    /\ DOMAIN services' = DOMAIN services
    /\ Has(SuppliedFields, "hourlyRate")
         => ParseFloat(services'[request'.id].hourlyRate) = SuppliedFields.hourlyRate
    /\ \A k \in DOMAIN SuppliedFields \ {"hourlyRate"} :
          services'[request'.id][k] = SuppliedFields[k]
    /\ \A k \in DOMAIN services[request'.id] \ DOMAIN SuppliedFields :
          services'[request'.id][k] = services[request'.id][k]
    /\ \A j \in DOMAIN services \ {request'.id} : services'[j] = services[j]

\* C27: updateService applies every field it is given: an update with
\* hourlyRate = r, r >= 0 and r = 0 included, leaves the stored rate equal
\* to r in both backends, and the fields not given and the other services
\* are unchanged.
C27_UpdateServiceApplies == [][ServiceUpdated => UpdateApplied]_vars


(***************************************************************************)
(* Projects, sectors and service types registered, then the analytics page *)
(***************************************************************************)
NamedTables == {"projects", "sectors", "serviceTypes"}

\* insertProjectSchema, insertSectorSchema, insertServiceTypeSchema: the
\* columns that are NOT NULL must be given (a project's status is not read
\* by the analytics and is left out of the rows)
NamedRequired ==
    [projects |-> {"clientId", "name"}, sectors |-> {"code", "description"},
     serviceTypes |-> {"code", "description"}]

\* the next value of the serial, or of MemStorage's counter: no row is
\* deleted and no INSERT is refused here
NextRowId(rows) == Cardinality(DOMAIN rows) + 1

\* the constraints of the three tables
NamedRowHolds(table, rows, row) ==
    CASE table = "projects" -> row.clientId \in DOMAIN clients
         [] table = "sectors" ->
               /\ ByCode(rows, row.code) = {}
               /\ row.clientId = NoId \/ row.clientId \in DOMAIN clients
         [] table = "serviceTypes" -> ByCode(rows, row.code) = {}

\* createProject (always on the database), createSector, createServiceType
CreateNamed(b, table, rows, row) ==
    IF (b = "db" \/ table = "projects") /\ ~NamedRowHolds(table, rows, row)
    THEN [result |-> "throw", rows |-> rows]
    ELSE [result |-> "ok", rows |-> rows @@ (NextRowId(rows) :> row)]

PostNamedResult(b, table, rows, body) ==
    IF ~(NamedRequired[table] \subseteq DOMAIN body)
    THEN [result |-> "invalid", rows |-> rows]
    ELSE CreateNamed(b, table, rows,
             IF table = "sectors" /\ ~Has(body, "clientId")
             THEN Spread(body, [clientId |-> NoId]) ELSE body)

NamedBodies ==
    [projects |-> {[clientId |-> 2, name |-> "ERP"], [clientId |-> 1, name |-> "Intranet"],
                   [clientId |-> 1]},
     sectors |-> {[code |-> "FIN2", description |-> "Financeiro"],
                  [code |-> "RH", description |-> "Recursos Humanos", clientId |-> 1]},
     serviceTypes |-> {[code |-> "CONS", description |-> "Consultoria externa"],
                       [code |-> "AUD", description |-> "Auditoria"]}]

NamedHandled(table, body, out) ==
    /\ Atomic("POST /api/" \o table, NoId, body,
              CASE out.result = "ok" -> 201
                [] out.result = "invalid" -> 400
                [] OTHER -> 500)
    /\ projects' = IF table = "projects" THEN out.rows ELSE projects
    /\ sectors' = IF table = "sectors" THEN out.rows ELSE sectors
    /\ serviceTypes' = IF table = "serviceTypes" THEN out.rows ELSE serviceTypes
    /\ UNCHANGED <<calcVars, browserVars, backend, clients, consultants, services,
                   counterVars, timeEntries, currentTimeEntryId>>

\* POST /api/projects, POST /api/sectors, POST /api/service-types
PostNamed ==
    \E table \in NamedTables :
        \E body \in NamedBodies[table] :
            NamedHandled(table, body, PostNamedResult(backend, table, Master[table], body))

GroupedBody(day, projectId, sectorId, serviceTypeId) ==
    Spread(FormBody(day, 2, 3, T(8, 0), T(16, 0)),
           [projectId |-> projectId, sectorId |-> sectorId, serviceTypeId |-> serviceTypeId])

\* entries of the registered and of the newly registered rows
GroupPostBodies ==
    { GroupedBody(3, 1, 2, 1), GroupedBody(4, 3, 2, 1), GroupedBody(4, 1, 4, 1),
      GroupedBody(4, 1, 2, 5), GroupedBody(5, NoId, NoId, NoId) }

PostGroupEntry ==
    \E body \in GroupPostBodies :
        PostTimeEntryWith(body)

GroupsNext ==
    \/ PostNamed
    \/ PostGroupEntry
    \/ GetAnalytics

SpecGroups == ServerInit /\ [][GroupsNext]_vars

(***************************************************************************)
(* Claims about the analytics groups (SpecGroups)                          *)
(***************************************************************************)
\* the entries of the answer that are in one group of a dimension point to
\* the same row, or all to none
GroupedByColumn(dimension, column) ==
    \A i, j \in 1 .. Len(Answer.rows) :
        Answer.rows[i][dimension] = Answer.rows[j][dimension]
            => timeEntries[Answer.rows[i].id][column] = timeEntries[Answer.rows[j].id][column]

\* C28: in the analytics, two entries are in the same project group only if
\* they have the same projectId or both have none, and likewise for the
\* sector and the service-type groups: distinct projects, sectors or service
\* types are never merged into one group.
C28_GroupsNotMerged ==
    Answer.kind = "analytics" =>
        /\ GroupedByColumn("project", "projectId")
        /\ GroupedByColumn("sector", "sectorId")
        /\ GroupedByColumn("serviceType", "serviceTypeId")


(***************************************************************************)
(* Claims about what the consultant routes disclose (SpecAuth)             *)
(***************************************************************************)
\* the same password hashed with another salt; a text that is no hash with
\* another character at its end
OtherSecret(text) ==
    IF IsBcryptHash(text) THEN <<BcryptPrefix, "saltC">> \o SubSeq(text, 3, Len(text))
    ELSE text \o <<"x">>

\* stores that differ from rows in the password column only: the same
\* passwords under other salts, and one other password for every row
OtherStores(rows) ==
    { [i \in DOMAIN rows |-> [rows[i] EXCEPT !.password = OtherSecret(@)]],
      [i \in DOMAIN rows |-> [rows[i] EXCEPT !.password =
                                 BcryptHash(<<"outra789">>, "saltC")]] }

WithoutOut(r) == [status |-> r.status, data |-> r.data]

\* the answers the handler of req can give on a store
AnswersOn(b, rows, nextId, req) ==
    CASE req.route = "POST /api/login" -> {LoginResult(rows, req.body)}
      [] req.route = "GET /api/consultants" ->
            {GetConsultantsResult(rows, order) : order \in RowOrders(b, DOMAIN rows)}
      [] req.route = "POST /api/consultants" ->
            {WithoutOut(PostConsultantResult(b, rows, nextId, req.body, salt)) :
                salt \in Salts}
      [] req.route = "PUT /api/consultants/:id" ->
            {WithoutOut(PutConsultantResult(b, rows, nextId, req.id, req.body, salt)) :
                salt \in Salts}

\* a request of the four routes is answered in this step
ConsultantRouteAnswered ==
    /\ request' # request
    /\ request'.route \in AuthRoutes

\* the stores the claim compares with: for a login, those where it succeeds too
Comparable(other) ==
    request'.route = "POST /api/login" =>
        /\ response'.status = 200
        /\ LoginResult(other, request'.body).status = 200

\* C29: the answers of POST /api/login, GET /api/consultants and POST / PUT
\* /api/consultants do not depend on the stored passwords: the answer given
\* is an answer the same request has on every store that differs in the
\* consultants' passwords only (for a login, when it succeeds on both).
C29_PasswordsNotDisclosed ==
    [][ConsultantRouteAnswered =>
          \A other \in OtherStores(consultants) :
              Comparable(other) =>
                  response' \in AnswersOn(backend, other, currentConsultantId, request')]_vars


(***************************************************************************)
(* The client Router: page load, login, logout                             *)
(*                                                                         *)
(* router.authUser is localStorage's auth_user, router.last the handler    *)
(* that ran last.  A text is JSON of a value, no JSON, or the empty text.  *)
(***************************************************************************)
\* JSON.stringify(value)
Stringify(v) == [text |-> "json", value |-> v]

\* a text JSON.parse throws on, and the text ""
NotJson == [text |-> "not json", value |-> JsNull]
EmptyText == [text |-> "", value |-> JsNull]

\* JSON.parse(text): the value, or threw
JsonParse(t) ==
    IF t.text = "json" THEN [threw |-> FALSE, value |-> t.value]
    ELSE [threw |-> TRUE, value |-> JsNull]

\* if (value): null and "" are falsy, an object is truthy
TruthyValue(v) == v.type = "object"
TruthyItem(item) == item # NoItem /\ item[1].text # ""

\* what POST /api/login answers for consultant 3, as the page keeps it
SampleUser == JsObject(Spread(SampleConsultants[3], [id |-> 3]))

\* what an earlier visit, or anything else that writes the origin's
\* localStorage, can have left under auth_user
LeftBehind == {NoItem, <<Stringify(SampleUser)>>, <<Stringify(JsNull)>>, <<NotJson>>,
               <<EmptyText>>}

\* the effect of Router's mount, on useState(null) and useState(true)
mountEffect(r) ==
    IF ~TruthyItem(r.authUser)
    THEN [r EXCEPT !.loaded = TRUE, !.user = JsNull, !.isLoading = FALSE, !.last = "load"]
    ELSE IF JsonParse(r.authUser[1]).threw
    THEN [r EXCEPT !.loaded = TRUE, !.user = JsNull, !.isLoading = FALSE,
                   !.authUser = NoItem, !.last = "load"]
    ELSE [r EXCEPT !.loaded = TRUE, !.user = JsonParse(r.authUser[1]).value,
                   !.isLoading = FALSE, !.last = "load"]

\* handleLoginSuccess(consultant)
handleLoginSuccess(r, consultant) ==
    [r EXCEPT !.user = consultant, !.authUser = <<Stringify(consultant)>>, !.last = "login"]

\* handleLogout without its localStorage.removeItem
handleLogoutKeepingItem(r) ==
    [r EXCEPT !.user = JsNull, !.last = "logout"]

\* handleLogout
handleLogout(r) ==
    [r EXCEPT !.user = JsNull, !.authUser = NoItem, !.last = "logout"]

\* what Router renders
Renders(r) ==
    IF ~r.loaded THEN "nothing"
    ELSE IF r.isLoading THEN "Carregando"
    ELSE IF ~TruthyValue(r.user) THEN "Login"
    ELSE "protected"

RouterBecomes(r) ==
    /\ router' = r
    /\ UNCHANGED <<calcVars, storeVars, httpVars, page>>

\* the application is loaded, or loaded again: the state is new, the effect runs
PageLoad == RouterBecomes(mountEffect(router))

\* Login's onSubmit after POST /api/login was answered with a consultant
LoginSuccess ==
    /\ Renders(router) = "Login"
    /\ request.route = "POST /api/login"
    /\ response.status = 200
    /\ RouterBecomes(handleLoginSuccess(router, JsObject(response.data.rows[1])))

\* logout() of the AuthContext, from a protected page
Logout ==
    /\ Renders(router) = "protected"
    /\ RouterBecomes(handleLogout(router))

RouterInit ==
    /\ \E b \in {"mem", "db"} :
          StoreInitWith(b, IF b = "mem" THEN MemConsultants ELSE DbConsultants)
    /\ calcIn = [start |-> <<8, 0>>, end |-> <<8, 0>>, brk |-> NoBreak, rate |-> 0]
    /\ calcOut = NoResult
    /\ page = NoPage
    /\ \E item \in LeftBehind : router = [NoRouter EXCEPT !.authUser = item]

RouterNext ==
    \/ PostConsultant
    \/ PostLogin
    \/ PageLoad
    \/ LoginSuccess
    \/ Logout

SpecRouter == RouterInit /\ [][RouterNext]_vars

(***************************************************************************)
(* Claims about the Router (SpecRouter)                                    *)
(***************************************************************************)
\* the value auth_user parses to, null when there is none or it is no JSON
StoredUser ==
    IF router.authUser = NoItem THEN JsNull ELSE JsonParse(router.authUser[1]).value

HoldsParseable == router.authUser # NoItem /\ ~JsonParse(router.authUser[1]).threw

\* what holds of every text: the protected pages need a user, and logout
\* leaves no user and no auth_user
RouterAlways ==
    /\ Renders(router) = "protected" => router.user # JsNull
    /\ router.last = "logout" => router.user = JsNull /\ router.authUser = NoItem

\* C30 as it is stated: once the application is loaded, the protected pages
\* are rendered only while user is non-null, user is non-null exactly when
\* localStorage holds a parseable auth_user, logout sets user to null and
\* removes auth_user, and an unparseable auth_user is removed on load and
\* leaves the user logged out.
C30_AsStated ==
    router.loaded =>
        /\ RouterAlways
        /\ router.user # JsNull <=> HoldsParseable
        /\ router.last = "load" /\ router.authUser # NoItem => HoldsParseable

\* C30: once the application is loaded, the protected pages are rendered
\* only while user is non-null; user is the value auth_user parses to (null
\* when there is no auth_user), so user is non-null exactly when auth_user
\* parses to a value that is not null; logout sets user to null and removes
\* auth_user; and after a load auth_user is absent, parseable or the empty
\* text, the user being logged out unless it parses to a value.
C30_UserIsStoredUser ==
    router.loaded =>
        /\ RouterAlways
        /\ router.user = StoredUser
        /\ router.last = "load" /\ router.authUser # NoItem =>
              HoldsParseable \/ router.authUser[1].text = ""

C30_Witness ==
    /\ router.last = "logout"
    /\ router.user = JsNull
    /\ request.route = "POST /api/login"
    /\ response.status = 200

=============================================================================
